---- MODULE Spec2Model ----
(***************************************************************************)
(* A model of the gotrue authentication server:                            *)
(*   - the MFA enroll / challenge / verify / unenroll handlers             *)
(*     (src/api/mfa.go, src/api/admin.go),                                 *)
(*   - the session / AAL model (src/unnamed/part_001),                     *)
(*   - the PKCE flow state (src/internal/models/flow_state.go),            *)
(*   - the HTTP and in-database hook dispatchers (src/unnamed/part_002).   *)
(* Each part has a specification of its own: Spec (MFA, one request at a   *)
(* time), SpecAdmin (MFA with the administrator's factor update),          *)
(* SpecRace (concurrent VerifyFactor requests), SpecSession, SpecAAL,      *)
(* SpecFlow, SpecHook (SpecHookLive with fairness) and SpecPgHook.  The    *)
(* variables of the other parts stay at their idle values in each of them. *)
(***************************************************************************)
EXTENDS Integers, Sequences, FiniteSets, TLC

VARIABLES
    factors,      \* mfa_factors table: factor id -> [user, type, status, secret, friendlyName]
    challenges,   \* mfa_challenges table: challenge id -> [factor, createdAt, verifiedAt]
    sessions,     \* sessions table: session id -> [user, factor, aal, amrClaims]
    nextId,       \* next fresh identifier of each table (uuid.NewV4)
    auditLog,     \* audit_log_entries table: action -> number of entries
    successes,    \* history: challenge id -> number of VerifyFactor requests that succeeded
    last,         \* the last request handled and its response
    now,          \* the clock (time.Now), in units of one second
    calc,         \* SpecAAL: a session and the result of CalculateAALAndAMR on it
    flowStates,   \* flow_state table: auth code -> [codeChallenge, codeChallengeMethod, createdAt]
    flowNext,     \* the next fresh auth code (uuid.NewV4)
    redeemed,     \* history: auth code -> number of redemptions that succeeded
    flowLast,     \* SpecFlow: the last flow-state operation and its result
    pkceLog,      \* history: auth code -> the VerifyPKCE calls made on its flow state
    hook,         \* SpecHook: the local state of one runHTTPHook call
    inflight      \* SpecRace: the VerifyFactor request each worker is handling

vars == <<factors, challenges, sessions, nextId, auditLog, successes, last, now,
          calc, flowStates, flowNext, redeemed, flowLast, pkceLog, hook, inflight>>

mfaVars  == <<factors, challenges, sessions, nextId, auditLog, successes, last>>
aalVars  == <<calc>>
flowVars == <<flowStates, flowNext, redeemed, flowLast, pkceLog>>
hookVars == <<hook>>
raceVars == <<inflight>>

----------------------------------------------------------------------------
(* Bounds of the model *)

NumUsers      == 2
MaxFactors    == 2
MaxChallenges == 2
MaxSessions   == 2
MaxTime       == 1
MaxUpdates    == 1
CodeSpace     == 2

Users == 1..NumUsers
Codes == 0..(CodeSpace - 1)

(* Program constants *)

ChallengeExpiryDuration == 0

NilUUID == 0        \* uuid.Nil
NULL    == -1       \* a null timestamp

FactorUnverifiedState == "unverified"
FactorVerifiedState   == "verified"
TOTP                  == "totp"
TOTPSignIn            == "totp"
AAL1                  == "aal1"
AAL2                  == "aal2"
AAL3                  == "aal3"

FactorTypes == {TOTP, "webauthn"}

(* net/http status codes *)
StatusOK                 == 200
StatusCreated            == 201
StatusAccepted           == 202
StatusNoContent          == 204
StatusBadRequest         == 400
StatusUnauthorized       == 401
StatusForbidden          == 403
StatusTooManyRequests    == 429
StatusInternalServerError == 500
StatusServiceUnavailable == 503

AuditActions == {"enroll", "challenge", "verify", "unenroll", "adminDelete", "adminUpdate"}

----------------------------------------------------------------------------
(* Store helpers *)

Remove(f, k) == [x \in (DOMAIN f) \ {k} |-> f[x]]

Insert(f, k, v) == [x \in (DOMAIN f) \cup {k} |-> IF x = k THEN v ELSE f[x]]

Restrict(f, S) == [x \in S |-> f[x]]

----------------------------------------------------------------------------
(* Session / AAL model: src/unnamed/part_001 *)

AALRank(aal) ==
    CASE aal = AAL1 -> 1
      [] aal = AAL2 -> 2
      [] aal = AAL3 -> 3
      [] OTHER      -> 0

NewSession(user, factorID) ==
    [user |-> user, factor |-> factorID, aal |-> AAL1, amrClaims |-> <<>>]

RECURSIVE CalcLoop(_, _, _)
CalcLoop(claims, aal, amr) ==
    IF claims = <<>>
    THEN [aal |-> aal, amr |-> amr]
    ELSE LET claim == Head(claims)
         IN  CalcLoop(Tail(claims),
                      IF claim.method = TOTPSignIn THEN AAL2 ELSE aal,
                      Append(amr, [method |-> claim.method, timestamp |-> claim.updatedAt]))

CalculateAALAndAMR_FromStored(s) == CalcLoop(s.amrClaims, s.aal, <<>>)

CalculateAALAndAMR(s) == CalcLoop(s.amrClaims, AAL1, <<>>)

UpdateAssociatedFactorAndAAL(ss, sid, factorID, aal) ==
    [ss EXCEPT ![sid].factor = factorID, ![sid].aal = aal]

(* the text of an aal value, as bytes *)
AALText(aal) ==
    CASE aal = AAL1 -> <<97, 97, 108, 49>>
      [] aal = AAL2 -> <<97, 97, 108, 50>>
      [] aal = AAL3 -> <<97, 97, 108, 51>>
      [] OTHER      -> <<>>

(* the comparison "aal < ?" of the DELETE statement, on text *)
RECURSIVE TextLess(_, _)
TextLess(a, b) ==
    IF b = <<>> THEN FALSE
    ELSE IF a = <<>> THEN TRUE
    ELSE IF Head(a) # Head(b) THEN Head(a) < Head(b)
    ELSE TextLess(Tail(a), Tail(b))

InvalidateSessionsWithAALLessThan_OrEqual(ss, userID, level) ==
    Restrict(ss, {x \in DOMAIN ss :
                    ~(ss[x].user = userID /\ ~TextLess(AALText(level), AALText(ss[x].aal)))})

InvalidateSessionsWithAALLessThan(ss, userID, level) ==
    Restrict(ss, {x \in DOMAIN ss :
                    ~(ss[x].user = userID /\ TextLess(AALText(ss[x].aal), AALText(level)))})

InvalidateOtherFactorAssociatedSessions_All(ss, currentSessionID, userID, factorID) ==
    Restrict(ss, {x \in DOMAIN ss : ~(ss[x].user = userID /\ ss[x].factor = factorID)})

InvalidateOtherFactorAssociatedSessions(ss, currentSessionID, userID, factorID) ==
    Restrict(ss, {x \in DOMAIN ss :
                    ~(ss[x].user = userID /\ ss[x].factor = factorID /\ x # currentSessionID)})

AddClaimToSession(ss, sid, method, t) ==
    [ss EXCEPT ![sid].amrClaims = Append(@, [method |-> method, updatedAt |-> t])]

issueRefreshToken(ss, sid, method, factorID, t) ==
    LET ss1 == AddClaimToSession(ss, sid, method, t)
        aal == CalculateAALAndAMR(ss1[sid]).aal
    IN  UpdateAssociatedFactorAndAAL(ss1, sid, factorID, aal)

----------------------------------------------------------------------------
(* Factor and challenge model *)

NewFactor(user, factorType, state, secret) ==
    [user |-> user, type |-> factorType, status |-> state, secret |-> secret,
     friendlyName |-> ""]

NewChallenge(factorID, t) ==
    [factor |-> factorID, createdAt |-> t, verifiedAt |-> NULL]

FindVerifiedFactorsByUser(fs, user) ==
    {x \in DOMAIN fs : fs[x].user = user /\ fs[x].status = FactorVerifiedState}

VerifiedFactorUnique_Off(fs, fid) == TRUE

(* The store's row-level constraint: one verified factor per user. *)
VerifiedFactorUnique(fs, fid) ==
    \A x \in DOMAIN fs :
        (x # fid /\ fs[x].user = fs[fid].user) => fs[x].status # FactorVerifiedState

UpdateStatus(fs, fid, state) == [fs EXCEPT ![fid].status = state]

ChallengeVerify(cs, cid, t) == [cs EXCEPT ![cid].verifiedAt = t]

(* tx.Destroy(factor): the factor's challenges go with it. *)
DestroyFactorChallenges(cs, fid) ==
    Restrict(cs, {x \in DOMAIN cs : cs[x].factor # fid})

(* totp: the code of a secret at a time step, and its validation *)
GenerateCode(secret, t) == (2 * secret + t) % CodeSpace

totpValidate(code, secret, t) == code = GenerateCode(secret, t)

AlreadyVerified_Never(ch) == FALSE

AlreadyVerified_Always(ch) == TRUE

AlreadyVerified(ch) == ch.verifiedAt # NULL

hasExpired_Never(ch, t) == FALSE

hasExpired(ch, t) == t > ch.createdAt + ChallengeExpiryDuration

UnenrollNeedsCode_Never(factor) == FALSE

UnenrollNeedsCode_Always(factor) == TRUE

UnenrollNeedsCode(factor) == factor.status = FactorVerifiedState

VerifyFactorStatus_Skip(fs, fid) == fs

(* VerifyFactor: the factor becomes verified unless it is already *)
VerifyFactorStatus(fs, fid) ==
    IF fs[fid].status # FactorVerifiedState
    THEN UpdateStatus(fs, fid, FactorVerifiedState)
    ELSE fs

----------------------------------------------------------------------------
(* The in-database hooks: invokePostgresHook (src/unnamed/part_002) and the
   hook outputs (src/internal/hooks/auth_hooks.go) *)

MFAVerificationAttempt      == "MFAVerificationAttempt"
PasswordVerificationAttempt == "PasswordVerificationAttempt"
CustomAccessToken           == "CustomAccessToken"

HookKinds == {MFAVerificationAttempt, PasswordVerificationAttempt, CustomAccessToken}

(* hooks.AuthHookError; the zero value is an absent "error" member *)
AuthHookError(httpCode, message) == [httpCode |-> httpCode, message |-> message]

NoHookError == AuthHookError(0, "")

(* api.HTTPError; NilError stands for a nil error *)
HTTPError(status, message) == [status |-> status, message |-> message]

NilError == HTTPError(0, "")

IsError(output) == output.error.message # ""

(* lines 393-397: the status of the failure built from a hook error *)
HookErrorStatus(httpCode) ==
    IF httpCode = 0 THEN StatusInternalServerError ELSE httpCode

(* the message of the internal error when runPostgresHook fails *)
InvokeErrorMessage(kind) ==
    CASE kind = MFAVerificationAttempt      -> "Error invoking MFA verification hook."
      [] kind = PasswordVerificationAttempt -> "Error invoking password verification hook."
      [] kind = CustomAccessToken           -> "Error invoking access token hook."

(* validateTokenClaims(hookOutput.Claims): nil, or the schema error *)
validateTokenClaims(claims) ==
    IF claims = "conforming" THEN "" ELSE "output claims do not conform to the expected schema"

TokenClaimsChecked_Never(kind) == FALSE

(* line 458: only the custom-access-token output has its claims validated *)
TokenClaimsChecked(kind) == kind = CustomAccessToken

invokePostgresHook_Allow(kind, runErr, output) == NilError

(* runErr: runPostgresHook returned an error (the procedure failed, timed out,
   or its value did not deserialize into output) *)
invokePostgresHook(kind, runErr, output) ==
    IF runErr
    THEN HTTPError(StatusInternalServerError, InvokeErrorMessage(kind))
    ELSE IF IsError(output)
    THEN HTTPError(HookErrorStatus(output.error.httpCode), output.error.message)
    ELSE IF TokenClaimsChecked(kind) /\ validateTokenClaims(output.claims) # ""
    THEN HTTPError(HookErrorStatus(output.error.httpCode), validateTokenClaims(output.claims))
    ELSE NilError

(* what the MFA-verification-attempt hook can answer: no error object, a status
   alone, a message alone, or both *)
MFAHookOutputs ==
    [error : {AuthHookError(c, m) : c \in {0, StatusForbidden}, m \in {"", "rejected"}}]

MFAHookAllows == [error |-> NoHookError]

----------------------------------------------------------------------------
(* Transactions: storage.Connection.Transaction.  snaps[1] is the store before
   the transaction and snaps[k + 1] the store after its step k; failing is the
   step that returned an error, 0 when none did. *)

Store(fs, cs, ss, log) ==
    [factors |-> fs, challenges |-> cs, sessions |-> ss, auditLog |-> log, token |-> FALSE]

Transaction_NoRollback(snaps, failing) ==
    IF failing = 0 THEN snaps[Len(snaps)] ELSE snaps[failing]

(* commit when every step succeeded, roll back otherwise *)
Transaction(snaps, failing) ==
    IF failing = 0 THEN snaps[Len(snaps)] ELSE snaps[1]

(* the first step to fail, among the steps that do *)
FirstFailing(steps) ==
    IF steps = {} THEN 0 ELSE CHOOSE k \in steps : \A j \in steps : k <= j

----------------------------------------------------------------------------
(* Responses *)

NoRequest == [op |-> "none", result |-> "none", user |-> 0, session |-> 0,
              factor |-> 0, challenge |-> 0, valid |-> FALSE, txErr |-> FALSE,
              token |-> FALSE, hook |-> MFAHookAllows]

Request(op, u, s, f, c, valid) ==
    [op |-> op, result |-> "none", user |-> u, session |-> s,
     factor |-> f, challenge |-> c, valid |-> valid, txErr |-> FALSE, token |-> FALSE,
     hook |-> MFAHookAllows]

Reply(req, result) == [req EXCEPT !.result = result]

TxFailed(req) == [req EXCEPT !.result = "Internal", !.txErr = TRUE]

(* the error kind of an HTTP-shaped failure *)
StatusName(status) ==
    CASE status = StatusBadRequest          -> "BadRequest"
      [] status = StatusUnauthorized        -> "Unauthorized"
      [] status = StatusForbidden           -> "Forbidden"
      [] status = StatusInternalServerError -> "Internal"
      [] OTHER                              -> "HTTPError"

Audit(log, action) == [log EXCEPT ![action] = @ + 1]

Idle == last.op = "none"

----------------------------------------------------------------------------
(* MFA handlers: src/api/mfa.go *)

MFAInit ==
    /\ factors    = <<>>
    /\ challenges = <<>>
    /\ sessions   = <<>>
    /\ nextId     = [factor |-> 1, challenge |-> 1, session |-> 1]
    /\ auditLog   = [a \in AuditActions |-> 0]
    /\ successes  = [c \in {} |-> 0]
    /\ last       = NoRequest

MFAIdle == MFAInit

(* the store as the transaction left it *)
Persist(db) ==
    /\ factors'    = db.factors
    /\ challenges' = db.challenges
    /\ sessions'   = db.sessions
    /\ auditLog'   = db.auditLog

(* Primary authentication: models.CreateSession *)
CreateSession(u) ==
    /\ Idle
    /\ nextId.session <= MaxSessions
    /\ sessions' = Insert(sessions, nextId.session, NewSession(u, NilUUID))
    /\ nextId'   = [nextId EXCEPT !.session = @ + 1]
    /\ last'     = Reply(Request("login", u, nextId.session, 0, 0, FALSE), "OK")
    /\ UNCHANGED <<factors, challenges, auditLog, successes, now>>

EnrollFactorCheck_None(factorType, verified) == "nil"

(* lines 70-92: the checks of EnrollFactor before it creates the factor *)
EnrollFactorCheck(factorType, verified) ==
    IF factorType # TOTP THEN "Unprocessable"
    ELSE IF Cardinality(verified) >= 1 THEN "Forbidden"
    ELSE "nil"

(* fault: the step of the transaction that fails (1 tx.Create, 2 the audit
   entry), 0 when none does *)
EnrollFactor(u, factorType, fault) ==
    LET req   == Request("enroll", u, 0, nextId.factor, 0, FALSE)
        check == EnrollFactorCheck(factorType, FindVerifiedFactorsByUser(factors, u))
        d0    == Store(factors, challenges, sessions, auditLog)
        d1    == [d0 EXCEPT !.factors =
                     Insert(@, nextId.factor,
                            NewFactor(u, factorType, FactorUnverifiedState, nextId.factor))]
        d2    == [d1 EXCEPT !.auditLog = Audit(@, "enroll")]
    IN
    /\ Idle
    /\ nextId.factor <= MaxFactors
    /\ IF check # "nil"
       THEN /\ fault = 0
            /\ last' = Reply([req EXCEPT !.factor = 0], check)
            /\ UNCHANGED <<factors, challenges, sessions, auditLog, nextId>>
       ELSE /\ Persist(Transaction(<<d0, d1, d2>>, fault))
            /\ IF fault # 0
               THEN /\ last' = TxFailed([req EXCEPT !.factor = 0])
                    /\ UNCHANGED nextId
               ELSE /\ nextId' = [nextId EXCEPT !.factor = @ + 1]
                    /\ last'   = Reply(req, "OK")
    /\ UNCHANGED <<successes, now>>

(* fault: 1 tx.Create, 2 the audit entry *)
ChallengeFactor(f, fault) ==
    LET req == Request("challenge", 0, 0, f, nextId.challenge, FALSE)
        d0  == Store(factors, challenges, sessions, auditLog)
        d1  == [d0 EXCEPT !.challenges = Insert(@, nextId.challenge, NewChallenge(f, now))]
        d2  == [d1 EXCEPT !.auditLog = Audit(@, "challenge")]
    IN
    /\ Idle
    /\ f \in DOMAIN factors
    /\ nextId.challenge <= MaxChallenges
    /\ Persist(Transaction(<<d0, d1, d2>>, fault))
    /\ IF fault # 0
       THEN /\ last' = TxFailed([req EXCEPT !.challenge = 0])
            /\ UNCHANGED <<nextId, successes>>
       ELSE /\ successes'  = Insert(successes, nextId.challenge, 0)
            /\ nextId'     = [nextId EXCEPT !.challenge = @ + 1]
            /\ last'       = Reply(req, "OK")
    /\ UNCHANGED now

(* The steps of the transaction of VerifyFactor (lines 221-249):
     1 the audit entry             2 challenge.Verify
     3 factor.UpdateStatus         4 issueRefreshToken: the AMR claim and the AAL
     5 issueRefreshToken: the MFA-verification-attempt hook
     6 issueRefreshToken: the token pair
     7 setCookieTokens             8 InvalidateSessionsWithAALLessThan
   fault is the step at which the store fails, out the answer of the hook. *)
VerifyFactorRuns ==
    {[fault |-> k, out |-> MFAHookAllows] : k \in 0..8}
    \cup {[fault |-> 0, out |-> o] : o \in MFAHookOutputs}

NoFault == [fault |-> 0, out |-> MFAHookAllows]

VerifyFactorSteps(db, u, s, f, c, t) ==
    LET d1 == [db EXCEPT !.auditLog   = Audit(@, "verify")]
        d2 == [d1 EXCEPT !.challenges = ChallengeVerify(@, c, t)]
        d3 == [d2 EXCEPT !.factors    = VerifyFactorStatus(@, f)]
        d4 == [d3 EXCEPT !.sessions   = issueRefreshToken(@, s, TOTPSignIn, f, t)]
        d6 == [d4 EXCEPT !.token      = TRUE]
        d8 == [d6 EXCEPT !.sessions   = InvalidateSessionsWithAALLessThan(@, u, AAL2)]
    IN  <<db, d1, d2, d3, d4, d4, d6, d6, d8>>

VerifyFactor(s, f, c, code, run) ==
    /\ Idle
    /\ s \in DOMAIN sessions
    /\ f \in DOMAIN factors
    /\ LET fault  == run.fault
           out    == run.out
           u      == sessions[s].user
           factor == factors[f]
           valid  == totpValidate(code, factor.secret, now)
           req    == Request("verify", 0, s, f, c, valid)
           d0     == Store(factors, challenges, sessions, auditLog)
       IN
       IF c \notin DOMAIN challenges
       THEN /\ run = NoFault
            /\ last' = Reply(req, "NotFound")
            /\ UNCHANGED <<factors, challenges, sessions, auditLog, successes>>
       ELSE IF AlreadyVerified(challenges[c])
       THEN /\ run = NoFault
            /\ last' = Reply(req, "BadRequest")
            /\ UNCHANGED <<factors, challenges, sessions, auditLog, successes>>
       ELSE IF ~valid
       THEN /\ run = NoFault
            /\ last' = Reply(req, "Unauthorized")
            /\ UNCHANGED <<factors, challenges, sessions, auditLog, successes>>
       ELSE IF hasExpired(challenges[c], now)
       THEN /\ fault <= 1 /\ out = MFAHookAllows
            /\ Persist(Transaction(<<d0, [d0 EXCEPT !.challenges = Remove(@, c)]>>, fault))
            /\ last' = IF fault # 0 THEN TxFailed(req) ELSE Reply(req, "BadRequest")
            /\ UNCHANGED successes
       ELSE LET snaps   == VerifyFactorSteps(d0, u, s, f, c, now)
                hookErr == invokePostgresHook(MFAVerificationAttempt, fault = 5, out)
                failing == FirstFailing(
                               (IF fault # 0 THEN {fault} ELSE {})
                               \cup (IF ~VerifiedFactorUnique(snaps[4].factors, f)
                                     THEN {3} ELSE {})
                               \cup (IF hookErr # NilError THEN {5} ELSE {}))
            IN
            /\ Persist(Transaction(snaps, failing))
            /\ successes' = IF failing = 0 THEN [successes EXCEPT ![c] = @ + 1]
                            ELSE successes
            /\ last' = IF failing = 0
                       THEN [Reply(req, "OK") EXCEPT !.token = TRUE, !.hook = out]
                       ELSE IF failing = 5
                       THEN [TxFailed(req) EXCEPT !.result = StatusName(hookErr.status),
                                                  !.hook = out]
                       ELSE TxFailed(req)
    /\ UNCHANGED <<nextId, now>>

(* fault: 1 tx.Destroy, 2 the audit entry, 3 InvalidateOtherFactorAssociatedSessions *)
UnenrollFactor(s, f, code, fault) ==
    /\ Idle
    /\ s \in DOMAIN sessions
    /\ f \in DOMAIN factors
    /\ LET u      == sessions[s].user
           factor == factors[f]
           valid  == totpValidate(code, factor.secret, now)
           req    == Request("unenroll", 0, s, f, 0, valid)
           d0     == Store(factors, challenges, sessions, auditLog)
           d1     == [d0 EXCEPT !.factors    = Remove(@, f),
                                !.challenges = DestroyFactorChallenges(@, f)]
           d2     == [d1 EXCEPT !.auditLog   = Audit(@, "unenroll")]
           d3     == [d2 EXCEPT !.sessions   =
                         InvalidateOtherFactorAssociatedSessions(@, s, u, f)]
       IN
       IF UnenrollNeedsCode(factor) /\ ~valid
       THEN /\ fault = 0
            /\ last' = Reply(req, "Unauthorized")
            /\ UNCHANGED <<factors, challenges, sessions, auditLog>>
       ELSE /\ Persist(Transaction(<<d0, d1, d2, d3>>, fault))
            /\ last' = IF fault # 0 THEN TxFailed(req) ELSE Reply(req, "OK")
    /\ UNCHANGED <<nextId, successes, now>>

(* src/api/admin.go; fault: 1 the audit entry, 2 tx.Destroy *)
adminUserDeleteFactor(f, fault) ==
    LET req == Request("adminDelete", 0, 0, f, 0, FALSE)
        d0  == Store(factors, challenges, sessions, auditLog)
        d1  == [d0 EXCEPT !.auditLog   = Audit(@, "adminDelete")]
        d2  == [d1 EXCEPT !.factors    = Remove(@, f),
                          !.challenges = DestroyFactorChallenges(@, f)]
    IN
    /\ Idle
    /\ f \in DOMAIN factors
    /\ Persist(Transaction(<<d0, d1, d2>>, fault))
    /\ last' = IF fault # 0 THEN TxFailed(req) ELSE Reply(req, "OK")
    /\ UNCHANGED <<nextId, successes, now>>

(* Factor.UpdateFriendlyName and Factor.UpdateFactorType: one column each *)
UpdateFriendlyName(fs, fid, friendlyName) == [fs EXCEPT ![fid].friendlyName = friendlyName]

UpdateFactorType_ResetStatus(fs, fid, factorType) ==
    [fs EXCEPT ![fid].type = factorType, ![fid].status = FactorUnverifiedState]

UpdateFactorType(fs, fid, factorType) == [fs EXCEPT ![fid].type = factorType]

(* the values of the request's friendly_name and factor_type; "" is a field
   the request leaves out *)
FriendlyNames == {"", "name"}

UpdateFactorTypes == {"", TOTP, "webauthn"}

(* src/api/admin.go, lines 474-518.  The steps of the transaction: 1
   UpdateFriendlyName, run when the request names one; 2 UpdateFactorType, run
   when the request names a type, after the test that the type is TOTP; 3 the
   audit entry.  fault is the step at which the store fails. *)
adminUserUpdateFactor(f, friendlyName, factorType, fault) ==
    LET req == Request("adminUpdate", 0, 0, f, 0, FALSE)
        d0  == Store(factors, challenges, sessions, auditLog)
        d1  == IF friendlyName # ""
               THEN [d0 EXCEPT !.factors = UpdateFriendlyName(@, f, friendlyName)]
               ELSE d0
        d2  == IF factorType # ""
               THEN [d1 EXCEPT !.factors = UpdateFactorType(@, f, factorType)]
               ELSE d1
        d3  == [d2 EXCEPT !.auditLog = Audit(@, "adminUpdate")]
        invalidType == factorType # "" /\ factorType # TOTP
        failing == FirstFailing((IF fault # 0 THEN {fault} ELSE {})
                                \cup (IF invalidType THEN {2} ELSE {}))
    IN
    /\ Idle
    /\ f \in DOMAIN factors
    /\ auditLog["adminUpdate"] < MaxUpdates
    /\ fault = 1 => friendlyName # ""
    /\ fault = 2 => factorType = TOTP
    /\ Persist(Transaction(<<d0, d1, d2, d3>>, failing))
    /\ last' = IF failing = 0 THEN Reply(req, "OK")
               ELSE IF invalidType /\ fault # 1 THEN Reply(req, "BadRequest")
               ELSE TxFailed(req)
    /\ UNCHANGED <<nextId, successes, now>>

(* The response is sent (sendJSON, or the error handler) and the server takes
   the next request. *)
Respond ==
    /\ ~Idle
    /\ last' = NoRequest
    /\ UNCHANGED <<factors, challenges, sessions, nextId, auditLog, successes, now>>

Tick ==
    /\ Idle
    /\ now < MaxTime
    /\ now' = now + 1
    /\ UNCHANGED <<factors, challenges, sessions, nextId, auditLog, successes, last>>

----------------------------------------------------------------------------
(* SpecSession: the operations on the sessions table (src/unnamed/part_001),
   each applied to the table as a request of its own *)

MaxAMRClaims == 1

AALs == {AAL1, AAL2, AAL3}

FactorIDs == 1..MaxFactors

(* UPDATE sessions SET aal = ?, factor_id = nil WHERE user_id = ? AND factor_id = ? *)
updateFactorAssociatedSessions(ss, userID, factorID, aal) ==
    [x \in DOMAIN ss |->
        IF ss[x].user = userID /\ ss[x].factor = factorID
        THEN [ss[x] EXCEPT !.aal = aal, !.factor = NilUUID]
        ELSE ss[x]]

(* DELETE FROM sessions WHERE user_id = ? *)
Logout(ss, userId) == Restrict(ss, {x \in DOMAIN ss : ss[x].user # userId})

SessionOp(op, u, s, f) == Reply(Request(op, u, s, f, 0, FALSE), "OK")

SessionFrame == UNCHANGED <<factors, challenges, auditLog, successes, nextId, now>>

(* the session steps of a successful VerifyFactor (mfa.go, lines 236-247) *)
SessionVerified(s, f) ==
    /\ Idle
    /\ s \in DOMAIN sessions
    /\ Len(sessions[s].amrClaims) < MaxAMRClaims
    /\ sessions' = InvalidateSessionsWithAALLessThan(
                       issueRefreshToken(sessions, s, TOTPSignIn, f, now),
                       sessions[s].user, AAL2)
    /\ last' = SessionOp("verified", sessions[s].user, s, f)
    /\ SessionFrame

SessionUpdateAssociatedFactorAndAAL(s, factorID, aal) ==
    /\ Idle
    /\ s \in DOMAIN sessions
    /\ sessions' = UpdateAssociatedFactorAndAAL(sessions, s, factorID, aal)
    /\ last' = SessionOp("UpdateAssociatedFactorAndAAL", sessions[s].user, s, factorID)
    /\ SessionFrame

SessionUpdateFactorAssociated(userID, factorID, aal) ==
    /\ Idle
    /\ \E x \in DOMAIN sessions : sessions[x].user = userID
    /\ sessions' = updateFactorAssociatedSessions(sessions, userID, factorID, aal)
    /\ last' = SessionOp("updateFactorAssociatedSessions", userID, 0, factorID)
    /\ SessionFrame

SessionInvalidateBelow(userID, level) ==
    /\ Idle
    /\ \E x \in DOMAIN sessions : sessions[x].user = userID
    /\ sessions' = InvalidateSessionsWithAALLessThan(sessions, userID, level)
    /\ last' = SessionOp("InvalidateSessionsWithAALLessThan", userID, 0, 0)
    /\ SessionFrame

(* factor removal: the session step of UnenrollFactor (mfa.go, line 291) *)
SessionFactorRemoved(s, f) ==
    /\ Idle
    /\ s \in DOMAIN sessions
    /\ sessions' = InvalidateOtherFactorAssociatedSessions(sessions, s, sessions[s].user, f)
    /\ last' = SessionOp("InvalidateOtherFactorAssociatedSessions", sessions[s].user, s, f)
    /\ SessionFrame

SessionLogout(userId) ==
    /\ Idle
    /\ \E x \in DOMAIN sessions : sessions[x].user = userId
    /\ sessions' = Logout(sessions, userId)
    /\ last' = SessionOp("Logout", userId, 0, 0)
    /\ SessionFrame

----------------------------------------------------------------------------
(* SpecAAL: Session.CalculateAALAndAMR applied to a session
   (src/unnamed/part_001) *)

MaxClaims == 2

AuthenticationMethods == {"password", TOTPSignIn, "otp"}

AMRClaims == [method : AuthenticationMethods, updatedAt : 0..MaxTime]

ClaimSeqs == UNION {[1..n -> AMRClaims] : n \in 0..MaxClaims}

(* the sessions a request may load: every stored AAL with every claim list *)
LoadedSessions ==
    {[user |-> 1, factor |-> NilUUID, aal |-> a, amrClaims |-> cl] :
        a \in {AAL1, AAL2, AAL3}, cl \in ClaimSeqs}

NotCalculated == [aal |-> "none", amr |-> <<>>]

AALInit == calc \in [session : LoadedSessions, result : {NotCalculated}]

AALIdle == calc = [session |-> NewSession(0, NilUUID), result |-> NotCalculated]

Calculate ==
    /\ calc.result = NotCalculated
    /\ calc' = [calc EXCEPT !.result = CalculateAALAndAMR(calc.session)]

(* the caller drops the result, e.g. after it has built the token's claims *)
Discard ==
    /\ calc.result # NotCalculated
    /\ calc' = [calc EXCEPT !.result = NotCalculated]

----------------------------------------------------------------------------
(* SpecFlow: the PKCE flow state (src/internal/models/flow_state.go).
   Strings are sequences of bytes. *)

MaxFlows       == 1
MaxVerifierLen == 2
DigestLen      == 5

VerifierBytes == {97, 98}                       \* "a", "b"

Verifiers == UNION {[1..n -> VerifierBytes] : n \in 1..MaxVerifierLen}

SHA256 == 0
Plain  == 1

InvalidCodeChallengeError ==
    "code challenge does not match previously saved code verifier"
InvalidCodeMethodError == "code challenge method not supported"

CodeChallengeMethodString(authMethod) ==
    CASE authMethod = SHA256 -> "s256"
      [] authMethod = Plain  -> "plain"
      [] OTHER               -> ""

(* crypto/sha256.Sum256, scaled down: a digest of DigestLen bytes that mixes
   every byte of the input and its length; it is injective on Verifiers
   (Sum256Injective) *)
RECURSIVE Sum256Mix(_, _)
Sum256Mix(bytes, h) ==
    IF bytes = <<>> THEN h
    ELSE Sum256Mix(Tail(bytes), (h * 31 + Head(bytes)) % 65521)

Sum256(bytes) ==
    LET h == Sum256Mix(bytes, 17 + Len(bytes))
    IN  [k \in 1..DigestLen |-> ((h \div k) * (2 * k + 1) + 7 * k) % 256]

(* encoding/base64.RawURLEncoding: the URL alphabet, no padding *)
B64Char(i) ==
    IF i < 26 THEN 65 + i                       \* A-Z
    ELSE IF i < 52 THEN 97 + (i - 26)           \* a-z
    ELSE IF i < 62 THEN 48 + (i - 52)           \* 0-9
    ELSE IF i = 62 THEN 45                      \* -
    ELSE 95                                     \* _

RECURSIVE EncodeToString(_)
EncodeToString(src) ==
    IF Len(src) = 0 THEN <<>>
    ELSE IF Len(src) = 1
    THEN <<B64Char(src[1] \div 4), B64Char((src[1] % 4) * 16)>>
    ELSE IF Len(src) = 2
    THEN <<B64Char(src[1] \div 4),
           B64Char((src[1] % 4) * 16 + src[2] \div 16),
           B64Char((src[2] % 16) * 4)>>
    ELSE <<B64Char(src[1] \div 4),
           B64Char((src[1] % 4) * 16 + src[2] \div 16),
           B64Char((src[2] % 16) * 4 + src[3] \div 64),
           B64Char(src[3] % 64)>>
         \o EncodeToString(SubSeq(src, 4, Len(src)))

(* crypto/subtle.ConstantTimeCompare: 1 when x and y have equal contents *)
ConstantTimeCompare(x, y) ==
    IF Len(x) # Len(y) THEN 0
    ELSE IF \A i \in 1..Len(x) : x[i] = y[i] THEN 1 ELSE 0

NewFlowState(authCode, codeChallenge, codeChallengeMethod, t) ==
    [authCode            |-> authCode,
     codeChallenge       |-> codeChallenge,
     codeChallengeMethod |-> CodeChallengeMethodString(codeChallengeMethod),
     createdAt           |-> t]

VerifyPKCE_DefaultMismatch(f, codeVerifier) ==
    CASE f.codeChallengeMethod = "s256" ->
            IF ConstantTimeCompare(f.codeChallenge,
                                   EncodeToString(Sum256(codeVerifier))) # 1
            THEN InvalidCodeChallengeError
            ELSE "nil"
      [] OTHER ->
            IF ConstantTimeCompare(f.codeChallenge, codeVerifier) # 1
            THEN InvalidCodeChallengeError
            ELSE "nil"

VerifyPKCE_NoHash(f, codeVerifier) ==
    CASE f.codeChallengeMethod \in {"s256", "plain"} ->
            IF ConstantTimeCompare(f.codeChallenge, codeVerifier) # 1
            THEN InvalidCodeChallengeError
            ELSE "nil"
      [] OTHER -> InvalidCodeMethodError

VerifyPKCE(f, codeVerifier) ==
    CASE f.codeChallengeMethod = CodeChallengeMethodString(SHA256) ->
            LET hashedCodeVerifier  == Sum256(codeVerifier)
                encodedCodeVerifier == EncodeToString(hashedCodeVerifier)
            IN  IF ConstantTimeCompare(f.codeChallenge, encodedCodeVerifier) # 1
                THEN InvalidCodeChallengeError
                ELSE "nil"
      [] f.codeChallengeMethod = CodeChallengeMethodString(Plain) ->
            IF ConstantTimeCompare(f.codeChallenge, codeVerifier) # 1
            THEN InvalidCodeChallengeError
            ELSE "nil"
      [] OTHER -> InvalidCodeMethodError

VerifyPKCEReceiver_Spent(f, codeVerifier) ==
    [f EXCEPT !.codeChallenge = <<>>]

(* the receiver *f after f.VerifyPKCE(codeVerifier): the method assigns to no
   field *)
VerifyPKCEReceiver(f, codeVerifier) == f

IsExpired(f, expiryDuration, t) == f.createdAt > t + expiryDuration

(* the challenges a client sends: a verifier itself, or its S256 transform *)
ClientChallenges ==
    Verifiers \cup {EncodeToString(Sum256(v)) : v \in Verifiers}

ChallengeMethods == {SHA256, Plain, -1}

ExpiryDurations == 0..MaxTime

NoFlow == [authCode |-> 0, codeChallenge |-> <<>>, codeChallengeMethod |-> "none",
           createdAt |-> 0]

NoFlowOp == [op |-> "none", f |-> NoFlow, arg |-> <<>>, result |-> "none"]

FlowOp(op, f, arg, result) == [op |-> op, f |-> f, arg |-> arg, result |-> result]

FlowInit ==
    /\ flowStates = <<>>
    /\ flowLast   = NoFlowOp
    /\ flowNext   = 1
    /\ redeemed   = <<>>
    /\ pkceLog    = <<>>

FlowIdle == FlowInit

FlowReady == flowLast.op = "none"

(* the calls of VerifyPKCE on one flow state: the verifiers given with the
   outcomes returned, and whether a verifier was given more than once *)
NoCalls == [seen |-> {}, repeated |-> FALSE]

Called(log, codeVerifier, result) ==
    [seen     |-> log.seen \cup {<<codeVerifier, result>>},
     repeated |-> log.repeated \/ \E p \in log.seen : p[1] = codeVerifier]

(* an authorization begins: NewFlowState and its insertion *)
CreateFlowState(codeChallenge, codeChallengeMethod) ==
    /\ FlowReady
    /\ flowNext <= MaxFlows
    /\ LET f == NewFlowState(flowNext, codeChallenge, codeChallengeMethod, now)
       IN  /\ flowStates' = Insert(flowStates, flowNext, f)
           /\ flowLast'   = FlowOp("create", f, <<>>, "nil")
    /\ redeemed' = Insert(redeemed, flowNext, 0)
    /\ pkceLog'  = Insert(pkceLog, flowNext, NoCalls)
    /\ flowNext' = flowNext + 1
    /\ UNCHANGED now

FindFlowStateByAuthCode(fst, authCode) ==
    IF authCode \in DOMAIN fst THEN fst[authCode] ELSE NoFlow

(* f.VerifyPKCE(codeVerifier) on a stored flow state *)
CheckPKCE(authCode, codeVerifier) ==
    /\ FlowReady
    /\ authCode \in DOMAIN flowStates
    /\ LET f == FindFlowStateByAuthCode(flowStates, authCode)
           r == VerifyPKCE(f, codeVerifier)
       IN  /\ flowLast'   = FlowOp("verify", f, codeVerifier, r)
           /\ flowStates' = [flowStates EXCEPT
                                ![authCode] = VerifyPKCEReceiver(f, codeVerifier)]
           /\ pkceLog'    = [pkceLog EXCEPT ![authCode] = Called(@, codeVerifier, r)]
    /\ UNCHANGED <<flowNext, redeemed, now>>

ConsumeFlowState_Keep(fst, authCode) == fst

(* the redeemed flow state is deleted *)
ConsumeFlowState(fst, authCode) == Remove(fst, authCode)

(* the code exchange: find by auth code, verify the verifier, consume *)
Redeem(authCode, codeVerifier) ==
    /\ FlowReady
    /\ LET f == FindFlowStateByAuthCode(flowStates, authCode)
       IN  IF f = NoFlow
           THEN /\ flowLast' = FlowOp("redeem", [f EXCEPT !.authCode = authCode],
                                      codeVerifier, "NotFound")
                /\ UNCHANGED <<flowStates, redeemed, pkceLog>>
           ELSE IF VerifyPKCE(f, codeVerifier) # "nil"
           THEN /\ flowLast'   = FlowOp("redeem", f, codeVerifier, VerifyPKCE(f, codeVerifier))
                /\ flowStates' = [flowStates EXCEPT
                                     ![authCode] = VerifyPKCEReceiver(f, codeVerifier)]
                /\ pkceLog'    = [pkceLog EXCEPT
                                     ![authCode] = Called(@, codeVerifier,
                                                          VerifyPKCE(f, codeVerifier))]
                /\ UNCHANGED redeemed
           ELSE /\ flowStates' = ConsumeFlowState(flowStates, authCode)
                /\ redeemed'   = [redeemed EXCEPT ![authCode] = @ + 1]
                /\ flowLast'   = FlowOp("redeem", f, codeVerifier, "nil")
                /\ UNCHANGED pkceLog
    /\ UNCHANGED <<flowNext, now>>

CheckExpired(authCode, expiryDuration) ==
    /\ FlowReady
    /\ authCode \in DOMAIN flowStates
    /\ LET f == flowStates[authCode]
       IN  flowLast' = FlowOp("isExpired", f, expiryDuration,
                              IsExpired(f, expiryDuration, now))
    /\ UNCHANGED <<flowStates, flowNext, redeemed, pkceLog, now>>

FlowReturn ==
    /\ ~FlowReady
    /\ flowLast' = NoFlowOp
    /\ UNCHANGED <<flowStates, flowNext, redeemed, pkceLog, now>>

FlowTick ==
    /\ FlowReady
    /\ now < MaxTime
    /\ now' = now + 1
    /\ UNCHANGED <<flowStates, flowLast, flowNext, redeemed, pkceLog>>

----------------------------------------------------------------------------
(* SpecHook: one runHTTPHook call (src/unnamed/part_002).  Time is counted in
   seconds since the call's start. *)

DefaultHTTPHookTimeout  == 5
DefaultHTTPHookRetries  == 3
HTTPHookBackoffDuration == 2
BodyLimit               == 20480      \* 20 * 1024

MaxJitter == 1      \* how far a timeout or a sleep can overrun its duration

NoBody == -1        \* rsp.Body == nil

(* what the endpoint and the network can answer to one POST *)
(* eofWithData: whether the body's reader returns io.EOF together with its
   last byte or on the read after it; io.Reader allows both *)
Responses ==
    [kind : {"response"}, status : {StatusOK, StatusAccepted, StatusNoContent},
     retryAfter : {""}, bodyLen : {NoBody, 0, BodyLimit, BodyLimit + 1, BodyLimit + 2},
     eofWithData : BOOLEAN, gotConn : {TRUE}, took : {0}]
    \cup
    [kind : {"response"}, status : {StatusTooManyRequests, StatusServiceUnavailable},
     retryAfter : {"", "1"}, bodyLen : {0}, eofWithData : {FALSE},
     gotConn : {TRUE}, took : {0, DefaultHTTPHookTimeout}]
    \cup
    [kind : {"response"},
     status : {StatusBadRequest, StatusUnauthorized, StatusInternalServerError,
               StatusCreated},
     retryAfter : {""}, bodyLen : {0}, eofWithData : {FALSE}, gotConn : {TRUE}, took : {0}]

TransportErrors ==
    [kind : {"timeout"}, status : {0}, retryAfter : {""}, bodyLen : {NoBody},
     eofWithData : {FALSE}, gotConn : BOOLEAN,
     took : {DefaultHTTPHookTimeout + j : j \in 0..MaxJitter}]
    \cup
    [kind : {"error"}, status : {0}, retryAfter : {""}, bodyLen : {NoBody},
     eofWithData : {FALSE}, gotConn : BOOLEAN, took : {0}]

Outcomes == Responses \cup TransportErrors

(* cancelled: the inbound request's context is done *)
HookIdleState ==
    [pc |-> "idle", i |-> 0, elapsed |-> 0, attempts |-> <<>>,
     result |-> "none", body |-> NoBody, cancelled |-> FALSE]

HookInit == hook = HookIdleState

HookIdle == HookInit

(* rsp.Body.Read(p) with len(p) = 1 and rest bytes of the body unread: the
   count and the error it returns *)
BodyRead(rest, eofWithData) ==
    IF rest = 0 THEN [n |-> 0, err |-> "EOF"]
    ELSE IF rest = 1 /\ eofWithData THEN [n |-> 1, err |-> "EOF"]
    ELSE [n |-> 1, err |-> "nil"]

(* readBodyWithLimit: the body read, or "payload too large".  read is what
   io.ReadAll takes through the LimitedReader and n the reader's N after it. *)
readBodyWithLimit(bodyLen, eofWithData) ==
    LET read == IF bodyLen < BodyLimit THEN bodyLen ELSE BodyLimit
        n    == BodyLimit - read
    IN  IF n <= 0 /\ BodyRead(bodyLen - read, eofWithData).err = "nil"
        THEN [body |-> NoBody, err |-> "PayloadTooLarge"]
        ELSE [body |-> read, err |-> "nil"]

Done(h, result, body) == [h EXCEPT !.pc = "done", !.result = result, !.body = body]

Continue_SameAttempt(h, waited) == [h EXCEPT !.elapsed = @ + waited]

Continue(h, waited) == [h EXCEPT !.i = @ + 1, !.elapsed = @ + waited]

(* line 265: the signatures of one request, one per configured secret, each
   over the message id, the time and the payload it is given *)
GenerateSignatures(msgID, currentTime, inputPayload) ==
    [id |-> msgID, time |-> currentTime, body |-> inputPayload]

NewAttempt_ReuseID(h, outcome, slept) ==
    [msgID       |-> 1,
     timestamp   |-> h.elapsed,
     payload     |-> "inputPayload",
     signature   |-> GenerateSignatures(1, h.elapsed, "inputPayload"),
     outcome     |-> outcome,
     slept       |-> slept,
     afterCancel |-> h.cancelled]

(* lines 263-278: the request of one attempt.  msgID is uuid.NewV4(), a value
   no earlier attempt of the call has; currentTime is the time of the attempt;
   the body is inputPayload, serialized once at line 253. *)
NewAttempt(h, outcome, slept) ==
    LET msgID       == Len(h.attempts) + 1
        currentTime == h.elapsed
    IN  [msgID       |-> msgID,
         timestamp   |-> currentTime,
         payload     |-> "inputPayload",
         signature   |-> GenerateSignatures(msgID, currentTime, "inputPayload"),
         outcome     |-> outcome,
         slept       |-> slept,
         afterCancel |-> h.cancelled]

(* lines 253-257: the input is serialized and the clock started *)
HookStart ==
    /\ hook.pc = "idle"
    /\ hook' = [HookIdleState EXCEPT !.pc = "running"]

GuardExceeded_Never(h) == FALSE

GuardExceeded(h) == h.elapsed > (h.i + 1) * DefaultHTTPHookTimeout

(* lines 260-262: the elapsed-time guard at the head of an iteration *)
HookGuard ==
    /\ hook.pc = "running"
    /\ hook.i < DefaultHTTPHookRetries
    /\ GuardExceeded(hook)
    /\ hook' = Done(hook, "GatewayTimeout", 0)

(* lines 288-297: a transport error that is no timeout, at attempt i, after a
   connection was made or on the last attempt *)
TransportErrorResult(i) ==
    IF i = DefaultHTTPHookRetries - 1 THEN "GatewayTimeout" ELSE "Internal"

ShouldRetryStatus_Always(retryAfterHeader) == TRUE

(* lines 311-315: a 429 or 503 is retried when it carries retry-after *)
ShouldRetryStatus(retryAfterHeader) == retryAfterHeader # ""

StatusResult_AllInternal(status) == "Internal"

(* lines 317-322: the failure for a status that is neither a success nor 429
   or 503 *)
StatusResult(status) ==
    CASE status = StatusBadRequest   -> "BadRequest"
      [] status = StatusUnauthorized -> "Unauthorized"
      [] OTHER                       -> "Internal"

(* line 325: the result once the loop has run out of attempts *)
ExhaustedResult == "Internal"

(* lines 263-323: one attempt is sent and its outcome classified *)
HookAttempt(o, j) ==
    /\ hook.pc = "running"
    /\ hook.i < DefaultHTTPHookRetries
    /\ ~GuardExceeded(hook)
    /\ LET sleep == HTTPHookBackoffDuration + j
           sent(slept) == [hook EXCEPT !.attempts = Append(@, NewAttempt(hook, o, slept)),
                                       !.elapsed  = @ + o.took]
       IN
       IF o.kind = "timeout"
       THEN hook' = Continue(sent(HTTPHookBackoffDuration), sleep)
       ELSE IF o.kind = "error"
       THEN IF ~o.gotConn /\ hook.i < DefaultHTTPHookRetries - 1
            THEN hook' = Continue(sent(HTTPHookBackoffDuration), sleep)
            ELSE /\ j = 0
                 /\ hook' = Done(sent(0), TransportErrorResult(hook.i), NoBody)
       ELSE /\ j = 0
            /\ IF o.status \in {StatusOK, StatusNoContent, StatusAccepted}
               THEN IF o.bodyLen = NoBody
                    THEN hook' = Done(sent(0), "nil", NoBody)
                    ELSE LET r == readBodyWithLimit(o.bodyLen, o.eofWithData)
                         IN  hook' = Done(sent(0), r.err, r.body)
               ELSE IF o.status \in {StatusTooManyRequests, StatusServiceUnavailable}
               THEN IF ShouldRetryStatus(o.retryAfter)
                    THEN hook' = Continue(sent(0), 0)
                    ELSE hook' = Done(sent(0), "Internal", 0)
               ELSE hook' = Done(sent(0), StatusResult(o.status),
                                 IF o.status = StatusBadRequest THEN NoBody ELSE 0)

(* the inbound request is cancelled, or its deadline passes, during the call.
   The outbound request is built by http.NewRequest (line 270) and carries
   only the connection trace (line 334): nothing in the call reads the inbound
   context, so the call goes on. *)
HookCancel ==
    /\ hook.pc = "running"
    /\ ~hook.cancelled
    /\ hook' = [hook EXCEPT !.cancelled = TRUE]

(* line 325: the loop ends with every attempt used *)
HookExhausted ==
    /\ hook.pc = "running"
    /\ hook.i >= DefaultHTTPHookRetries
    /\ hook' = Done(hook, ExhaustedResult, NoBody)

(* the caller has the result; the next call starts afresh *)
HookReturn ==
    /\ hook.pc = "done"
    /\ hook' = HookIdleState


----------------------------------------------------------------------------
(* SpecPgHook: one invokePostgresHook call (src/unnamed/part_002): the
   procedure runs and its value is deserialized (runPostgresHook), then the
   output is interpreted *)

HookErrors ==
    {AuthHookError(c, m) : c \in {0, StatusBadRequest, StatusForbidden},
                           m \in {"", "rejected", "blocked"}}

(* the outputs of a hook kind; only CustomAccessTokenOutput has claims *)
PgOutputs(kind) ==
    IF kind = CustomAccessToken
    THEN [error : HookErrors, claims : {"conforming", "malformed"}]
    ELSE [error : HookErrors]

(* the steps of runPostgresHook that can fail *)
PgFaults == {"none", "setTimeout", "invoke", "resetTimeout", "unmarshal"}

(* lines 184-200: the three statements run on the transaction; the first that
   fails ends the function with its error *)
invokeHookFunc(fault) ==
    IF fault \in {"setTimeout", "invoke", "resetTimeout"} THEN fault ELSE "nil"

(* db.Transaction(invokeHookFunc), line 207: the function's own transaction *)
OwnTransaction(err) ==
    Transaction(<<"rolledBack", "committed">>,
                FirstFailing(IF err # "nil" THEN {1} ELSE {}))

runPostgresHook_IgnoreUnmarshal(tx, fault) ==
    [response |-> "response", err |-> invokeHookFunc(fault),
     ownTx |-> IF tx THEN "none" ELSE OwnTransaction(invokeHookFunc(fault)),
     ranOn |-> IF tx THEN "tx" ELSE "own"]

runPostgresHook_AlwaysOwn(tx, fault) ==
    [response |-> "response",
     err      |-> IF fault = "none" THEN "nil" ELSE fault,
     ownTx    |-> OwnTransaction(invokeHookFunc(fault)),
     ranOn    |-> "own"]

(* lines 202-216: the statements run on the caller's transaction when there is
   one and on a transaction of their own otherwise; then the returned value is
   deserialized into output.  ranOn: the connection invokeHookFunc was given;
   ownTx: what became of the transaction db.Transaction opened, "none" when it
   was not called. *)
runPostgresHook(tx, fault) ==
    LET err   == invokeHookFunc(fault)
        ownTx == IF tx THEN "none" ELSE OwnTransaction(err)
        ranOn == IF tx THEN "tx" ELSE "own"
    IN  IF err # "nil"
        THEN [response |-> "nil", err |-> err, ownTx |-> ownTx, ranOn |-> ranOn]
        ELSE IF fault = "unmarshal"
        THEN [response |-> "response", err |-> "unmarshal", ownTx |-> ownTx,
              ranOn |-> ranOn]
        ELSE [response |-> "response", err |-> "nil", ownTx |-> ownTx,
              ranOn |-> ranOn]

(* tx: the caller passed its transaction; callerTx: what became of it *)
PgIdleState ==
    [pc |-> "idle", kind |-> "none", runErr |-> FALSE,
     output |-> MFAHookAllows, result |-> NilError,
     fault |-> "none", tx |-> FALSE, callerTx |-> "none",
     ownTx |-> "none", ranOn |-> "none"]

PgInit == hook = PgIdleState

(* runPostgresHook has returned: with an error, or with output filled in *)
PgRun(kind, tx, fault, output) ==
    /\ hook.pc = "idle"
    /\ output \in PgOutputs(kind)
    /\ hook' = [hook EXCEPT !.pc = "ran", !.kind = kind, !.output = output,
                            !.runErr = runPostgresHook(tx, fault).err # "nil",
                            !.fault = fault, !.tx = tx,
                            !.callerTx = IF tx THEN "open" ELSE "none",
                            !.ownTx = runPostgresHook(tx, fault).ownTx,
                            !.ranOn = runPostgresHook(tx, fault).ranOn]

PgInterpret ==
    /\ hook.pc = "ran"
    /\ hook' = [hook EXCEPT !.pc = "done",
                            !.result = invokePostgresHook(hook.kind, hook.runErr, hook.output)]

(* the caller's transaction closure returns the error of invokePostgresHook,
   and the transaction commits or rolls back on it *)
PgCallerEnds ==
    /\ hook.pc = "done"
    /\ hook.tx
    /\ hook.callerTx = "open"
    /\ hook' = [hook EXCEPT !.callerTx =
                    Transaction(<<"rolledBack", "committed">>,
                                FirstFailing(IF hook.result # NilError THEN {1} ELSE {}))]

PgReturn ==
    /\ hook.pc = "done"
    /\ hook.callerTx # "open"
    /\ hook' = PgIdleState

----------------------------------------------------------------------------
(* SpecRace: VerifyFactor requests handled by concurrent workers
   (src/api/mfa.go).  A request reads the challenge and makes its checks on
   a.db, outside any transaction (lines 190-220), and then runs its
   transaction (lines 221-252); requests of other workers can be served
   between the two.  The transactions themselves are serial. *)

NumWorkers == 2
MaxServed  == 2     \* the requests one worker serves

Workers == 1..NumWorkers

NoWork == [pc |-> "idle", session |-> 0, factor |-> 0, challenge |-> 0,
           valid |-> FALSE, result |-> "none", token |-> FALSE, served |-> 0]

RaceIdle == inflight = [w \in Workers |-> NoWork]

(* the store when the requests arrive: a user has signed in, enrolled a
   factor and asked for two challenges on it *)
RaceInit ==
    /\ factors    = Insert(<<>>, 1, NewFactor(1, TOTP, FactorUnverifiedState, 1))
    /\ challenges = Insert(Insert(<<>>, 1, NewChallenge(1, 0)), 2, NewChallenge(1, 0))
    /\ sessions   = Insert(<<>>, 1, NewSession(1, NilUUID))
    /\ nextId     = [factor |-> 2, challenge |-> 3, session |-> 2]
    /\ auditLog   = [a \in AuditActions |->
                        IF a = "enroll" THEN 1 ELSE IF a = "challenge" THEN 2 ELSE 0]
    /\ successes  = [c \in {1, 2} |-> 0]
    /\ last       = NoRequest
    /\ RaceIdle

Working(w, s, f, c, valid) ==
    [inflight EXCEPT ![w] = [@ EXCEPT !.pc = "checked", !.session = s,
                                       !.factor = f, !.challenge = c,
                                       !.valid = valid]]

Finished(w, s, f, c, valid, result, token) ==
    [inflight EXCEPT ![w] = [pc |-> "done", session |-> s, factor |-> f,
                             challenge |-> c, valid |-> valid,
                             result |-> result, token |-> token,
                             served |-> @.served]]

(* lines 176-220: the challenge is read and the request checked against it *)
RaceCheck(w, s, f, c, code) ==
    /\ inflight[w].pc = "idle"
    /\ inflight[w].served < MaxServed
    /\ s \in DOMAIN sessions
    /\ f \in DOMAIN factors
    /\ LET valid == totpValidate(code, factors[f].secret, now)
       IN
       IF c \notin DOMAIN challenges
       THEN /\ inflight' = Finished(w, s, f, c, valid, "NotFound", FALSE)
            /\ UNCHANGED challenges
       ELSE IF AlreadyVerified(challenges[c])
       THEN /\ inflight' = Finished(w, s, f, c, valid, "BadRequest", FALSE)
            /\ UNCHANGED challenges
       ELSE IF ~valid
       THEN /\ inflight' = Finished(w, s, f, c, valid, "Unauthorized", FALSE)
            /\ UNCHANGED challenges
       ELSE IF hasExpired(challenges[c], now)
       THEN /\ inflight' = Finished(w, s, f, c, valid, "BadRequest", FALSE)
            /\ challenges' = Remove(challenges, c)
       ELSE /\ inflight' = Working(w, s, f, c, valid)
            /\ UNCHANGED challenges
    /\ UNCHANGED <<factors, sessions, auditLog, successes, nextId, last, now>>

(* lines 221-252: the transaction of a request that passed its checks *)
RaceCommit(w) ==
    /\ inflight[w].pc = "checked"
    /\ LET s       == inflight[w].session
           f       == inflight[w].factor
           c       == inflight[w].challenge
           d0      == Store(factors, challenges, sessions, auditLog)
           snaps   == VerifyFactorSteps(d0, sessions[s].user, s, f, c, now)
           failing == FirstFailing(IF ~VerifiedFactorUnique(snaps[4].factors, f)
                                   THEN {3} ELSE {})
       IN  /\ Persist(Transaction(snaps, failing))
           /\ successes' = IF failing = 0 THEN [successes EXCEPT ![c] = @ + 1]
                           ELSE successes
           /\ inflight'  = Finished(w, s, f, c, TRUE,
                                    IF failing = 0 THEN "OK" ELSE "Internal",
                                    failing = 0)
    /\ UNCHANGED <<nextId, last, now>>

----------------------------------------------------------------------------
(* Spec: the MFA state machine *)

Init ==
    /\ MFAInit
    /\ now = 0
    /\ RaceIdle
    /\ AALIdle
    /\ FlowIdle
    /\ HookIdle

Next ==
    \/ \E u \in Users : CreateSession(u) /\ UNCHANGED <<aalVars, flowVars, hookVars, raceVars>>
    \/ \E u \in Users, t \in FactorTypes, e \in 0..2 :
          EnrollFactor(u, t, e) /\ UNCHANGED <<aalVars, flowVars, hookVars, raceVars>>
    \/ \E f \in 1..MaxFactors, e \in 0..2 :
          ChallengeFactor(f, e) /\ UNCHANGED <<aalVars, flowVars, hookVars, raceVars>>
    \/ \E s \in 1..MaxSessions, f \in 1..MaxFactors,
          c \in 1..MaxChallenges, code \in Codes, run \in VerifyFactorRuns :
          VerifyFactor(s, f, c, code, run) /\ UNCHANGED <<aalVars, flowVars, hookVars, raceVars>>
    \/ \E s \in 1..MaxSessions, f \in 1..MaxFactors, code \in Codes, e \in 0..3 :
          UnenrollFactor(s, f, code, e) /\ UNCHANGED <<aalVars, flowVars, hookVars, raceVars>>
    \/ \E f \in 1..MaxFactors, e \in 0..2 :
          adminUserDeleteFactor(f, e) /\ UNCHANGED <<aalVars, flowVars, hookVars, raceVars>>
    \/ Respond /\ UNCHANGED <<aalVars, flowVars, hookVars, raceVars>>
    \/ Tick /\ UNCHANGED <<aalVars, flowVars, hookVars, raceVars>>

Spec == Init /\ [][Next]_vars

(* SpecAAL *)
InitAAL ==
    /\ AALInit
    /\ now = 0
    /\ RaceIdle
    /\ MFAIdle
    /\ FlowIdle
    /\ HookIdle

NextAAL ==
    \/ Calculate /\ UNCHANGED <<mfaVars, now, flowVars, hookVars, raceVars>>
    \/ Discard /\ UNCHANGED <<mfaVars, now, flowVars, hookVars, raceVars>>

SpecAAL == InitAAL /\ [][NextAAL]_vars

(* SpecHook *)
InitHook ==
    /\ HookInit
    /\ now = 0
    /\ RaceIdle
    /\ MFAIdle
    /\ AALIdle
    /\ FlowIdle

NextHook ==
    \/ HookStart /\ UNCHANGED <<mfaVars, now, aalVars, flowVars, raceVars>>
    \/ HookGuard /\ UNCHANGED <<mfaVars, now, aalVars, flowVars, raceVars>>
    \/ \E o \in Outcomes, j \in 0..MaxJitter :
          HookAttempt(o, j) /\ UNCHANGED <<mfaVars, now, aalVars, flowVars, raceVars>>
    \/ HookCancel /\ UNCHANGED <<mfaVars, now, aalVars, flowVars, raceVars>>
    \/ HookExhausted /\ UNCHANGED <<mfaVars, now, aalVars, flowVars, raceVars>>
    \/ HookReturn /\ UNCHANGED <<mfaVars, now, aalVars, flowVars, raceVars>>

SpecHook == InitHook /\ [][NextHook]_vars

(* the steps of the function's own body: the loop's head, an attempt and the
   return after the loop *)
HookStep ==
    /\ \/ HookGuard
       \/ \E o \in Outcomes, j \in 0..MaxJitter : HookAttempt(o, j)
       \/ HookExhausted
    /\ UNCHANGED <<mfaVars, now, aalVars, flowVars, raceVars>>

(* SpecHookLive: SpecHook with a running call always taking its next step.
   The body is sequential code; each of its blocking operations is bounded:
   client.Do by the client's timeout (lines 243-245) and time.Sleep by its
   argument (lines 286, 290). *)
SpecHookLive == SpecHook /\ WF_vars(HookStep)

(* SpecFlow *)
InitFlow ==
    /\ FlowInit
    /\ now = 0
    /\ RaceIdle
    /\ MFAIdle
    /\ AALIdle
    /\ HookIdle

NextFlow ==
    \/ \E ch \in ClientChallenges, m \in ChallengeMethods :
          CreateFlowState(ch, m) /\ UNCHANGED <<mfaVars, aalVars, hookVars, raceVars>>
    \/ \E a \in 1..MaxFlows, v \in Verifiers :
          CheckPKCE(a, v) /\ UNCHANGED <<mfaVars, aalVars, hookVars, raceVars>>
    \/ \E a \in 1..MaxFlows, v \in Verifiers :
          Redeem(a, v) /\ UNCHANGED <<mfaVars, aalVars, hookVars, raceVars>>
    \/ \E a \in 1..MaxFlows, d \in ExpiryDurations :
          CheckExpired(a, d) /\ UNCHANGED <<mfaVars, aalVars, hookVars, raceVars>>
    \/ FlowReturn /\ UNCHANGED <<mfaVars, aalVars, hookVars, raceVars>>
    \/ FlowTick /\ UNCHANGED <<mfaVars, aalVars, hookVars, raceVars>>

SpecFlow == InitFlow /\ [][NextFlow]_vars

(* SpecSession *)
InitSession ==
    /\ MFAInit
    /\ now = 0
    /\ RaceIdle
    /\ AALIdle
    /\ FlowIdle
    /\ HookIdle

NextSession ==
    \/ \E u \in Users : CreateSession(u) /\ UNCHANGED <<aalVars, flowVars, hookVars, raceVars>>
    \/ \E s \in 1..MaxSessions, f \in FactorIDs :
          SessionVerified(s, f) /\ UNCHANGED <<aalVars, flowVars, hookVars, raceVars>>
    \/ \E s \in 1..MaxSessions, f \in FactorIDs \cup {NilUUID}, aal \in AALs :
          SessionUpdateAssociatedFactorAndAAL(s, f, aal)
             /\ UNCHANGED <<aalVars, flowVars, hookVars, raceVars>>
    \/ \E u \in Users, f \in FactorIDs, aal \in AALs :
          SessionUpdateFactorAssociated(u, f, aal)
             /\ UNCHANGED <<aalVars, flowVars, hookVars, raceVars>>
    \/ \E u \in Users, level \in AALs :
          SessionInvalidateBelow(u, level) /\ UNCHANGED <<aalVars, flowVars, hookVars, raceVars>>
    \/ \E s \in 1..MaxSessions, f \in FactorIDs :
          SessionFactorRemoved(s, f) /\ UNCHANGED <<aalVars, flowVars, hookVars, raceVars>>
    \/ \E u \in Users : SessionLogout(u) /\ UNCHANGED <<aalVars, flowVars, hookVars, raceVars>>
    \/ Respond /\ UNCHANGED <<aalVars, flowVars, hookVars, raceVars>>

SpecSession == InitSession /\ [][NextSession]_vars

(* SpecPgHook *)
InitPgHook ==
    /\ PgInit
    /\ now = 0
    /\ RaceIdle
    /\ MFAIdle
    /\ AALIdle
    /\ FlowIdle

NextPgHook ==
    \/ \E kind \in HookKinds, tx \in BOOLEAN, fault \in PgFaults,
          c \in {"conforming", "malformed"}, e \in HookErrors :
          \/ PgRun(kind, tx, fault, [error |-> e, claims |-> c])
                /\ UNCHANGED <<mfaVars, now, aalVars, flowVars, raceVars>>
          \/ PgRun(kind, tx, fault, [error |-> e])
                /\ UNCHANGED <<mfaVars, now, aalVars, flowVars, raceVars>>
    \/ PgInterpret /\ UNCHANGED <<mfaVars, now, aalVars, flowVars, raceVars>>
    \/ PgCallerEnds /\ UNCHANGED <<mfaVars, now, aalVars, flowVars, raceVars>>
    \/ PgReturn /\ UNCHANGED <<mfaVars, now, aalVars, flowVars, raceVars>>

SpecPgHook == InitPgHook /\ [][NextPgHook]_vars

(* the response is sent and the worker takes its next request *)
RaceRespond(w) ==
    /\ inflight[w].pc = "done"
    /\ inflight' = [inflight EXCEPT ![w] = [NoWork EXCEPT !.served = @ + 1]]
    /\ UNCHANGED <<mfaVars, now>>

(* SpecAdmin: the handlers that create, change and destroy factors, the
   administrator's update among them, with a store that does not fail in the
   users' requests *)
NextAdmin ==
    \/ \E u \in Users : CreateSession(u) /\ UNCHANGED <<aalVars, flowVars, hookVars, raceVars>>
    \/ \E u \in Users, t \in FactorTypes :
          EnrollFactor(u, t, 0) /\ UNCHANGED <<aalVars, flowVars, hookVars, raceVars>>
    \/ \E f \in 1..MaxFactors :
          ChallengeFactor(f, 0) /\ UNCHANGED <<aalVars, flowVars, hookVars, raceVars>>
    \/ \E s \in 1..MaxSessions, f \in 1..MaxFactors,
          c \in 1..MaxChallenges, code \in Codes :
          VerifyFactor(s, f, c, code, NoFault) /\ UNCHANGED <<aalVars, flowVars, hookVars, raceVars>>
    \/ \E s \in 1..MaxSessions, f \in 1..MaxFactors, code \in Codes :
          UnenrollFactor(s, f, code, 0) /\ UNCHANGED <<aalVars, flowVars, hookVars, raceVars>>
    \/ \E f \in 1..MaxFactors, e \in 0..2 :
          adminUserDeleteFactor(f, e) /\ UNCHANGED <<aalVars, flowVars, hookVars, raceVars>>
    \/ \E f \in 1..MaxFactors, n \in FriendlyNames, t \in UpdateFactorTypes, e \in 0..3 :
          adminUserUpdateFactor(f, n, t, e) /\ UNCHANGED <<aalVars, flowVars, hookVars, raceVars>>
    \/ Respond /\ UNCHANGED <<aalVars, flowVars, hookVars, raceVars>>

SpecAdmin == Init /\ [][NextAdmin]_vars

(* SpecRace *)
InitRace ==
    /\ RaceInit
    /\ now = 0
    /\ AALIdle
    /\ FlowIdle
    /\ HookIdle

NextRace ==
    \/ \E w \in Workers, s \in 1..MaxSessions, f \in 1..MaxFactors,
          c \in 1..MaxChallenges, code \in Codes :
          RaceCheck(w, s, f, c, code) /\ UNCHANGED <<aalVars, flowVars, hookVars>>
    \/ \E w \in Workers : RaceCommit(w) /\ UNCHANGED <<aalVars, flowVars, hookVars>>
    \/ \E w \in Workers : RaceRespond(w) /\ UNCHANGED <<aalVars, flowVars, hookVars>>

SpecRace == InitRace /\ [][NextRace]_vars

----------------------------------------------------------------------------
(* Properties of the MFA state machine (Spec) *)

(* A step that handles a request op: the server was idle and the response is op's *)
Handled(op) == Idle /\ last'.op = op

FactorsOf(fs, u) == {x \in DOMAIN fs : fs[x].user = u}

Expired(ch) == now > ch.createdAt + ChallengeExpiryDuration

(* C1: a challenge is verified by at most one VerifyFactor request: once its
   verified-at is set, every VerifyFactor that names it fails with BadRequest
   and changes nothing, whatever the code. *)
C1_VerifyAtMostOnce ==
    /\ [](\A c \in DOMAIN successes : successes[c] <= 1)
    /\ [][\A c \in DOMAIN challenges :
            (Handled("verify") /\ last'.challenge = c /\ challenges[c].verifiedAt # NULL)
                => /\ last'.result = "BadRequest"
                   /\ ~last'.token
                   /\ UNCHANGED <<factors, challenges, sessions, successes>>]_vars

C1_Witness ==
    /\ last.op = "verify"
    /\ last.result = "BadRequest"
    /\ last.valid
    /\ last.challenge \in DOMAIN challenges
    /\ challenges[last.challenge].verifiedAt # NULL
    /\ successes[last.challenge] = 1

(* C2: VerifyFactor on an unverified challenge past its expiry fails with
   BadRequest and removes the challenge, for every submitted code (the store
   working). *)
C2_ExpiredRejectedAndRemoved ==
    [][\A c \in DOMAIN challenges :
            (/\ Handled("verify") /\ last'.challenge = c /\ ~last'.txErr
             /\ challenges[c].verifiedAt = NULL /\ Expired(challenges[c]))
                => /\ last'.result = "BadRequest"
                   /\ c \notin DOMAIN challenges']_vars

(* C3: from a fresh user, EnrollFactor leaves exactly one factor, unverified;
   ChallengeFactor leaves a new challenge with verified-at null; VerifyFactor
   with a correct code inside the expiry window (the store working) succeeds,
   the factor is verified, the challenge has verified-at set, the acting
   session is at aal2 and has exactly one more AMR claim, a TOTP one. *)
C3_EndToEnd ==
    [][/\ (Handled("enroll") /\ last'.result = "OK" /\ FactorsOf(factors, last'.user) = {})
            => /\ FactorsOf(factors', last'.user) = {last'.factor}
               /\ factors'[last'.factor].status = "unverified"
       /\ (Handled("challenge") /\ last'.result = "OK")
            => /\ last'.challenge \in (DOMAIN challenges') \ (DOMAIN challenges)
               /\ challenges'[last'.challenge].factor = last'.factor
               /\ challenges'[last'.challenge].verifiedAt = NULL
       /\ \A c \in DOMAIN challenges :
            (/\ Handled("verify") /\ last'.challenge = c /\ last'.valid /\ ~last'.txErr
             /\ challenges[c].verifiedAt = NULL /\ ~Expired(challenges[c]))
                => LET s == last'.session
                       f == last'.factor
                   IN  /\ last'.result = "OK"
                       /\ factors'[f].status = "verified"
                       /\ challenges'[c].verifiedAt = now
                       /\ s \in DOMAIN sessions'
                       /\ sessions'[s].aal = "aal2"
                       /\ Len(sessions'[s].amrClaims) = Len(sessions[s].amrClaims) + 1
                       /\ SubSeq(sessions'[s].amrClaims, 1, Len(sessions[s].amrClaims))
                             = sessions[s].amrClaims
                       /\ sessions'[s].amrClaims[Len(sessions'[s].amrClaims)].method = "totp"
      ]_vars

C3_Witness ==
    /\ last.op = "verify"
    /\ last.result = "OK"
    /\ last.session \in DOMAIN sessions
    /\ FactorsOf(factors, sessions[last.session].user) = {last.factor}
    /\ factors[last.factor].status = "verified"
    /\ challenges[last.challenge].factor = last.factor
    /\ challenges[last.challenge].verifiedAt # NULL
    /\ sessions[last.session].aal = "aal2"
    /\ Len(sessions[last.session].amrClaims) = 1
    /\ nextId.factor = 2
    /\ nextId.challenge = 2

(* C4: in every reachable state each user has at most one verified factor. *)
C4_OneVerifiedFactorPerUser ==
    \A u \in Users :
        Cardinality({x \in DOMAIN factors :
                        factors[x].user = u /\ factors[x].status = "verified"}) <= 1

(* a user with two factors, one verified, whose VerifyFactor on the other,
   with a correct code on a live challenge of it, has just been refused *)
C4_Witness ==
    /\ last.op = "verify"
    /\ last.valid
    /\ last.result = "Internal"
    /\ last.factor \in DOMAIN factors
    /\ factors[last.factor].status = "unverified"
    /\ last.challenge \in DOMAIN challenges
    /\ challenges[last.challenge].factor = last.factor
    /\ challenges[last.challenge].verifiedAt = NULL
    /\ \E x \in DOMAIN factors :
          /\ x # last.factor
          /\ factors[x].user = factors[last.factor].user
          /\ factors[x].status = "verified"

(* C5: UnenrollFactor on a verified factor with a code that does not validate
   fails with Unauthorized and changes nothing. *)
C5_UnenrollWrongCode ==
    [][\A f \in DOMAIN factors :
            (/\ Handled("unenroll") /\ last'.factor = f /\ ~last'.valid
             /\ factors[f].status = "verified")
                => /\ last'.result = "Unauthorized"
                   /\ UNCHANGED <<factors, challenges, sessions, auditLog>>]_vars

C5_Witness ==
    /\ last.op = "unenroll"
    /\ last.result = "Unauthorized"
    /\ ~last.valid
    /\ last.factor \in DOMAIN factors
    /\ factors[last.factor].status = "verified"

(* C12: EnrollFactor, ChallengeFactor, VerifyFactor and UnenrollFactor are
   atomic with their audit entry: when a step of the operation's transaction
   fails, nothing of the transaction persists: factors, challenges, sessions
   and the audit log are as before and no token is returned. *)
C12_TransactionsAtomic ==
    [][\A op \in {"enroll", "challenge", "verify", "unenroll"} :
            (Handled(op) /\ last'.txErr)
                => /\ UNCHANGED <<factors, challenges, sessions, auditLog, successes>>
                   /\ last'.result # "OK"
                   /\ ~last'.token]_vars

(* a VerifyFactor with a correct code on a live challenge of an unverified
   factor, allowed by the store's constraint and by the hook, has failed in its
   transaction *)
C12_Witness ==
    /\ last.op = "verify"
    /\ last.txErr
    /\ last.valid
    /\ last.hook = MFAHookAllows
    /\ last.challenge \in DOMAIN challenges
    /\ challenges[last.challenge].verifiedAt = NULL
    /\ ~Expired(challenges[last.challenge])
    /\ factors[last.factor].status = "unverified"
    /\ \A x \in DOMAIN factors : factors[x].status = "unverified"
    /\ sessions[last.session].aal = "aal1"
    /\ sessions[last.session].amrClaims = <<>>
    /\ auditLog["verify"] = 0

(* C13: when the MFA-verification-attempt hook answers a VerifyFactor with a
   structured rejection (an error object with a message, its status set or
   not), the verification fails with the hook's status (500 when unset) and
   nothing persists: challenge, factor status, AMR claims and AAL are as
   before and no token is issued. *)
C13_HookRejectionAborts ==
    [][(Handled("verify") /\ last'.hook.error.message # "")
          => /\ last'.result =
                   (IF last'.hook.error.httpCode = 0 THEN "Internal" ELSE "Forbidden")
             /\ ~last'.token
             /\ UNCHANGED <<factors, challenges, sessions, auditLog, successes>>]_vars

C13_Witness ==
    /\ last.op = "verify"
    /\ last.hook.error.httpCode = 403
    /\ last.hook.error.message = "rejected"
    /\ last.result = "Forbidden"
    /\ last.valid
    /\ challenges[last.challenge].verifiedAt = NULL
    /\ challenges[last.challenge].factor = last.factor
    /\ factors[last.factor].status = "unverified"
    /\ sessions[last.session].aal = "aal1"
    /\ sessions[last.session].amrClaims = <<>>

(* C14: EnrollFactor persists a new, unverified factor only when factorType is
   TOTP and the user has no verified factor; with another factorType it fails
   with Unprocessable, with a verified factor it fails with Forbidden, and in
   both cases the factors are unchanged. *)
C14_EnrollPreconditions ==
    [][\A u \in Users, ft \in FactorTypes, e \in 0..2 :
          EnrollFactor(u, ft, e) =>
            LET verified == {x \in DOMAIN factors :
                                factors[x].user = u /\ factors[x].status = "verified"}
            IN  /\ ft # "totp"
                      => last'.result = "Unprocessable" /\ factors' = factors
                /\ (ft = "totp" /\ verified # {})
                      => last'.result = "Forbidden" /\ factors' = factors
                /\ (ft = "totp" /\ verified = {} /\ e = 0)
                      => last'.result = "OK" /\ factors' # factors
                /\ factors' # factors
                      => /\ ft = "totp" /\ verified = {}
                         /\ last'.factor \notin DOMAIN factors
                         /\ DOMAIN factors' = DOMAIN factors \cup {last'.factor}
                         /\ factors'[last'.factor].user = u
                         /\ factors'[last'.factor].status = "unverified"
                         /\ \A x \in DOMAIN factors : factors'[x] = factors[x]]_vars

(* a user with a verified factor has just been refused a second enrollment *)
C14_Witness ==
    /\ last.op = "enroll"
    /\ last.result = "Forbidden"
    /\ \E x \in DOMAIN factors :
          factors[x].user = last.user /\ factors[x].status = "verified"
    /\ nextId.factor <= MaxFactors

(* C25: UnenrollFactor on an unverified factor never answers Unauthorized,
   whatever the code: unless the store fails, it succeeds and the factor is
   destroyed; Unauthorized is answered only for a verified factor. *)
C25_UnverifiedUnenrollsWithoutCode ==
    [][\A f \in DOMAIN factors :
            (Handled("unenroll") /\ last'.factor = f)
                => /\ factors[f].status = "unverified"
                        => /\ last'.result # "Unauthorized"
                           /\ ~last'.txErr
                                => last'.result = "OK" /\ f \notin DOMAIN factors'
                   /\ last'.result = "Unauthorized"
                        => factors[f].status = "verified" /\ ~last'.valid]_vars

(* a factor was unenrolled with a wrong code, and no factor had ever been
   verified *)
C25_Witness ==
    /\ last.op = "unenroll"
    /\ last.result = "OK"
    /\ ~last.valid
    /\ last.factor \notin DOMAIN factors
    /\ auditLog["verify"] = 0
    /\ auditLog["unenroll"] = 1

(* C15: after a successful UnenrollFactor the factor is gone, no session of the
   acting user other than the acting session is associated with it, the acting
   session exists, and the acting session, the user's sessions tied to another
   factor or to none, and the sessions of other users are unchanged; when the
   factor was unverified no session is removed. *)
C15_UnenrollSessions ==
    [][(Handled("unenroll") /\ last'.result = "OK")
          => LET s == last'.session
                 f == last'.factor
                 u == sessions[s].user
             IN  /\ f \notin DOMAIN factors'
                 /\ s \in DOMAIN sessions'
                 /\ DOMAIN sessions' \subseteq DOMAIN sessions
                 /\ \A x \in DOMAIN sessions' :
                        (sessions'[x].user = u /\ x # s) => sessions'[x].factor # f
                 /\ \A x \in DOMAIN sessions :
                        (x = s \/ sessions[x].user # u \/ sessions[x].factor # f)
                            => x \in DOMAIN sessions' /\ sessions'[x] = sessions[x]
                 /\ factors[f].status = "unverified" => sessions' = sessions]_vars

(* two sessions were raised by VerifyFactor; unenrolling from one of them has
   removed the other *)
C15_Witness ==
    /\ last.op = "unenroll"
    /\ last.result = "OK"
    /\ DOMAIN sessions = {last.session}
    /\ sessions[last.session].factor = last.factor
    /\ Len(sessions[last.session].amrClaims) = 1
    /\ auditLog["verify"] = 2
    /\ auditLog["unenroll"] = 1

(* C16: InvalidateSessionsWithAALLessThan(userID, level) removes exactly the
   sessions of userID whose AAL is below level in the order aal1 < aal2 < aal3
   and leaves every other session as it was; after a successful VerifyFactor
   the user has no session below aal2. *)
C16_InvalidateBelow ==
    /\ [](\A u \in Users, level \in {"aal1", "aal2", "aal3"} :
            LET r == InvalidateSessionsWithAALLessThan(sessions, u, level)
            IN  /\ DOMAIN r \subseteq DOMAIN sessions
                /\ \A x \in DOMAIN sessions :
                      IF sessions[x].user = u /\ AALRank(sessions[x].aal) < AALRank(level)
                      THEN x \notin DOMAIN r
                      ELSE x \in DOMAIN r /\ r[x] = sessions[x])
    /\ [][(Handled("verify") /\ last'.result = "OK")
            => LET u == sessions[last'.session].user
               IN  /\ \A x \in DOMAIN sessions' :
                         sessions'[x].user = u => AALRank(sessions'[x].aal) >= 2
                   /\ \A x \in DOMAIN sessions :
                         (x # last'.session
                          /\ ~(sessions[x].user = u /\ AALRank(sessions[x].aal) < 2))
                            => x \in DOMAIN sessions' /\ sessions'[x] = sessions[x]]_vars

(* a successful VerifyFactor has removed the user's other session, which was
   at aal1 *)
C16_Witness ==
    /\ last.op = "verify"
    /\ last.result = "OK"
    /\ nextId.session = 3
    /\ DOMAIN sessions = {last.session}
    /\ sessions[last.session].aal = "aal2"
    /\ auditLog["unenroll"] = 0

----------------------------------------------------------------------------
(* Properties of CalculateAALAndAMR (SpecAAL) *)

HasTOTPClaim(claims) == \E i \in 1..Len(claims) : claims[i].method = "totp"

(* C6: CalculateAALAndAMR returns aal2 exactly when the session's AMR claims
   hold a TOTP entry and aal1 otherwise, whatever AAL the session stores, and
   leaves the session as it was. *)
C6_AALFromAMRClaims ==
    [][(calc.result = NotCalculated /\ calc'.result # NotCalculated)
          => /\ calc'.session = calc.session
             /\ calc'.result.aal =
                  IF HasTOTPClaim(calc.session.amrClaims) THEN "aal2" ELSE "aal1"]_vars

(* aal2 computed for a session that stores aal1, and aal1 would be wrong *)
C6_Witness ==
    /\ calc.result # NotCalculated
    /\ calc.result.aal = "aal2"
    /\ calc.session.aal = "aal1"
    /\ Len(calc.session.amrClaims) = 2
    /\ calc.session.amrClaims[1].method = "totp"
    /\ calc.session.amrClaims[2].method = "password"

(* C26: CalculateAALAndAMR returns one AMR entry per AMR claim of the session,
   and the entries are in non-decreasing order of timestamp, in whatever
   order the session holds its claims. *)
C26_AMROrderedByTime ==
    calc.result # NotCalculated
        => /\ Len(calc.result.amr) = Len(calc.session.amrClaims)
           /\ \A i, j \in 1..Len(calc.result.amr) :
                 i < j => calc.result.amr[i].timestamp <= calc.result.amr[j].timestamp

----------------------------------------------------------------------------
(* Properties of the PKCE flow state (SpecFlow) *)

(* the stand-in for SHA-256 is injective on the verifiers of the model *)
Sum256Injective ==
    \A v, w \in Verifiers : Sum256(v) = Sum256(w) => v = w

S256Challenge(v) == EncodeToString(Sum256(v))

(* the verifier V a stored challenge was derived from, under its method *)
DerivedFrom(f, v) ==
    \/ f.codeChallengeMethod = "s256" /\ f.codeChallenge = S256Challenge(v)
    \/ f.codeChallengeMethod = "plain" /\ f.codeChallenge = v

(* C7: on a flow state whose challenge was derived from V (s256: the base64url
   of the digest of V; plain: V itself), VerifyPKCE succeeds with V and fails
   with the mismatch error with every other verifier. *)
C7_PKCERoundTrip ==
    \A v \in Verifiers :
        (flowLast.op \in {"verify", "redeem"} /\ flowLast.result # "NotFound"
         /\ DerivedFrom(flowLast.f, v))
            => flowLast.result =
                 IF flowLast.arg = v THEN "nil" ELSE InvalidCodeChallengeError

C7_Witness ==
    /\ flowLast.op = "verify"
    /\ flowLast.f.codeChallengeMethod = "s256"
    /\ flowLast.f.codeChallenge = S256Challenge(flowLast.arg)
    /\ Len(flowLast.arg) = 2
    /\ flowLast.result = "nil"

(* C22: on a flow state whose stored method is neither s256 nor plain,
   VerifyPKCE fails with "code challenge method not supported" whatever the
   verifier; that error is not the mismatch error, which is returned only
   under a supported method. *)
C22_UnsupportedMethod ==
    /\ InvalidCodeMethodError # InvalidCodeChallengeError
    /\ (flowLast.op \in {"verify", "redeem"} /\ flowLast.result # "NotFound")
            => /\ flowLast.f.codeChallengeMethod \notin {"s256", "plain"}
                    => flowLast.result = InvalidCodeMethodError
               /\ flowLast.result = InvalidCodeChallengeError
                    => flowLast.f.codeChallengeMethod \in {"s256", "plain"}

(* the verifier is the stored challenge itself, which the plain method accepts *)
C22_Witness ==
    /\ flowLast.op = "verify"
    /\ flowLast.f.codeChallengeMethod = ""
    /\ flowLast.arg = flowLast.f.codeChallenge
    /\ flowLast.result = InvalidCodeMethodError

(* C23: VerifyPKCE on a stored flow state changes no field of it, and every
   call with the same verifier on the same flow state returns the same
   outcome. *)
C23_VerifyPKCEIdempotent ==
    /\ [](\A a \in DOMAIN pkceLog :
            \A p, q \in pkceLog[a].seen : p[1] = q[1] => p[2] = q[2])
    /\ [][(FlowReady /\ flowLast'.op = "verify") => flowStates' = flowStates]_vars

(* the same verifier was given twice to a flow state, which is still stored;
   it was accepted *)
C23_Witness ==
    /\ flowLast.op = "verify"
    /\ flowLast.result = "nil"
    /\ flowLast.f.authCode \in DOMAIN flowStates
    /\ pkceLog[flowLast.f.authCode].repeated
    /\ pkceLog[flowLast.f.authCode].seen = {<<flowLast.arg, "nil">>}

(* C8: a flow state is redeemed at most once: after a redemption succeeds the
   record is gone and no later redemption of its auth code succeeds. *)
C8_FlowStateSingleUse ==
    /\ \A a \in DOMAIN redeemed : redeemed[a] <= 1
    /\ \A a \in DOMAIN redeemed : redeemed[a] >= 1 => a \notin DOMAIN flowStates
    /\ (flowLast.op = "redeem" /\ flowLast.f.authCode \in DOMAIN redeemed
        /\ redeemed[flowLast.f.authCode] >= 1 /\ flowLast.result = "nil")
            => flowLast.f.authCode \notin DOMAIN flowStates

(* a second redemption of a redeemed auth code has just failed *)
C8_Witness ==
    /\ flowLast.op = "redeem"
    /\ flowLast.result = "NotFound"
    /\ flowLast.f.authCode \in DOMAIN redeemed
    /\ redeemed[flowLast.f.authCode] = 1

(* C9: IsExpired(ttl) is true exactly when the time is later than
   created_at + ttl. *)
C9_IsExpiredWhenPast ==
    flowLast.op = "isExpired"
        => (flowLast.result = (now > flowLast.f.createdAt + flowLast.arg))

----------------------------------------------------------------------------
(* Properties of runHTTPHook (SpecHook) *)

RetryAfter503(a) ==
    /\ a.outcome.kind = "response"
    /\ a.outcome.status = 503
    /\ a.outcome.retryAfter # ""

(* C10: when three consecutive attempts are answered 503 with a retry-after
   header, the call ends after the three attempts with a gateway-timeout
   error. *)
C10_RetryAfterExhausted ==
    (/\ hook.pc = "done"
     /\ Len(hook.attempts) = 3
     /\ \A k \in 1..3 : RetryAfter503(hook.attempts[k]))
        => hook.result = "GatewayTimeout"

Is2xx(a) ==
    /\ a.outcome.kind = "response"
    /\ a.outcome.status \in {200, 202, 204}
    /\ a.outcome.bodyLen # NoBody

(* C11: for a 200/202/204 response the body is returned in full when it has at
   most 20 * 1024 bytes, and the call fails with "payload too large" when it
   has 20 * 1024 + 1 bytes or more; no truncated body is returned as a success. *)
C11_BodyLimit ==
    (hook.pc = "done" /\ hook.attempts # <<>> /\ Is2xx(hook.attempts[Len(hook.attempts)]))
        => LET len == hook.attempts[Len(hook.attempts)].outcome.bodyLen
           IN  /\ len <= 20 * 1024 => hook.result = "nil" /\ hook.body = len
               /\ len >= 20 * 1024 + 1 => hook.result = "PayloadTooLarge"
               /\ hook.result = "nil" => hook.body = len

(* a body of exactly 20 * 1024 bytes is returned in full *)
C11_AtLimitAccepted ==
    (hook.pc = "done" /\ hook.attempts # <<>> /\ Is2xx(hook.attempts[Len(hook.attempts)])
     /\ hook.attempts[Len(hook.attempts)].outcome.bodyLen = 20 * 1024)
        => hook.result = "nil" /\ hook.body = 20 * 1024

(* C18: once the inbound request is cancelled, no further attempt is sent for
   the call. *)
C18_CancelStopsAttempts ==
    \A k \in 1..Len(hook.attempts) : ~hook.attempts[k].afterCancel

----------------------------------------------------------------------------
(* Properties of the session operations (SpecSession) *)

(* C17: over the session operations, the AAL of a session that still exists
   never decreases. *)
C17_AALNeverDecreases ==
    [][\A x \in (DOMAIN sessions) \cap (DOMAIN sessions') :
          AALRank(sessions'[x].aal) >= AALRank(sessions[x].aal)]_vars

(* the outcome of attempt k of the call *)
AttemptOutcome(k) == hook.attempts[k].outcome

IsRetryStatus(o) ==
    o.kind = "response" /\ o.status \in {StatusTooManyRequests, StatusServiceUnavailable}

(* C27: a 429 or 503 response without a retry-after header ends the call with
   an internal failure and is the call's last attempt; a response that is
   followed by another attempt is a 429 or 503 with a non-empty retry-after
   header. *)
C27_RetryOnlyWithRetryAfter ==
    \A k \in 1..Len(hook.attempts) :
        /\ (IsRetryStatus(AttemptOutcome(k)) /\ AttemptOutcome(k).retryAfter = "")
                => /\ k = Len(hook.attempts)
                   /\ hook.pc = "done"
                   /\ hook.result = "Internal"
        /\ (AttemptOutcome(k).kind = "response" /\ k < Len(hook.attempts))
                => IsRetryStatus(AttemptOutcome(k)) /\ AttemptOutcome(k).retryAfter # ""

(* the first attempt got a 429 with no retry-after: the call is over with two
   attempts left *)
C27_Witness ==
    /\ hook.pc = "done"
    /\ hook.i = 0
    /\ Len(hook.attempts) = 1
    /\ AttemptOutcome(1).status = 429
    /\ AttemptOutcome(1).retryAfter = ""
    /\ hook.result = "Internal"

(* C28: a response whose status is not 429 or 503 ends the call at that
   attempt: 200, 202 and 204 with success and the body (the whole body when
   it is within the size cap, none when the response has no body), 400 with
   a bad-request failure, 401 with an unauthorized failure, and every other
   status with an internal failure. *)
C28_StatusClassification ==
    \A k \in 1..Len(hook.attempts) :
        LET o == AttemptOutcome(k)
        IN  (o.kind = "response" /\ ~IsRetryStatus(o))
                => /\ k = Len(hook.attempts)
                   /\ hook.pc = "done"
                   /\ (o.status \in {200, 202, 204} /\ o.bodyLen <= BodyLimit)
                        => hook.result = "nil" /\ hook.body = o.bodyLen
                   /\ o.status = 400 => hook.result = "BadRequest"
                   /\ o.status = 401 => hook.result = "Unauthorized"
                   /\ o.status \notin {200, 202, 204, 400, 401}
                        => hook.result = "Internal"

(* the second attempt, after a retried 503, got 401 *)
C28_Witness ==
    /\ hook.pc = "done"
    /\ Len(hook.attempts) = 2
    /\ AttemptOutcome(1).status = 503
    /\ AttemptOutcome(2).status = 401
    /\ hook.result = "Unauthorized"

IsTransportFailure(o) ==
    o.kind = "timeout" \/ (o.kind = "error" /\ ~o.gotConn)

(* C29: a call whose three attempts all failed with a client timeout or with
   an error before a connection was made returns a gateway-timeout failure. *)
C29_TransportFailuresGatewayTimeout ==
    (/\ hook.pc = "done"
     /\ Len(hook.attempts) = DefaultHTTPHookRetries
     /\ \A k \in 1..Len(hook.attempts) : IsTransportFailure(AttemptOutcome(k)))
        => hook.result = "GatewayTimeout"

(* C30: attempt i (0-based) is sent only while the time since the start of the
   call is at most (i + 1) x 5 s; when it is more at the head of an iteration,
   the call ends with a gateway-timeout failure and sends nothing; the time a
   call takes is bounded by its attempts' timeouts and sleeps. *)
C30_ElapsedTimeGuard ==
    /\ [](\A k \in 1..Len(hook.attempts) :
            hook.attempts[k].timestamp <= k * DefaultHTTPHookTimeout)
    /\ [](hook.elapsed <= DefaultHTTPHookRetries
                            * (DefaultHTTPHookTimeout + HTTPHookBackoffDuration
                               + 2 * MaxJitter))
    /\ [][(/\ hook.pc = "running"
           /\ hook.i < DefaultHTTPHookRetries
           /\ hook.elapsed > (hook.i + 1) * DefaultHTTPHookTimeout)
              => /\ hook'.attempts = hook.attempts
                 /\ hook'.pc = "done" => hook'.result = "GatewayTimeout"]_vars

(* two attempts timed out and overran; the third was not sent *)
C30_Witness ==
    /\ hook.pc = "done"
    /\ hook.result = "GatewayTimeout"
    /\ hook.i = 2
    /\ Len(hook.attempts) = 2
    /\ hook.elapsed > 3 * DefaultHTTPHookTimeout

(* an attempt that failed after its connection was made *)
IsConnectedFailure(o) == o.kind \in {"timeout", "error"} /\ o.gotConn

(* C31: an attempt that made a connection and then failed, timing out
   included, is the call's last attempt and the call returns an error; an
   attempt that made a connection is followed by another attempt only when it
   was answered 429 or 503 with a retry-after header. *)
C31_ConnectedFailureNotRetried ==
    \A k \in 1..Len(hook.attempts) :
        /\ IsConnectedFailure(AttemptOutcome(k))
              => /\ k = Len(hook.attempts)
                 /\ hook.pc = "done" => hook.result # "nil"
        /\ (k < Len(hook.attempts) /\ AttemptOutcome(k).gotConn)
              => /\ IsRetryStatus(AttemptOutcome(k))
                 /\ AttemptOutcome(k).retryAfter # ""

(* an attempt of kind error that made a connection is the last one and the
   call fails *)
C31_ConnectedErrorNotRetried ==
    \A k \in 1..Len(hook.attempts) :
        (AttemptOutcome(k).kind = "error" /\ AttemptOutcome(k).gotConn)
            => /\ k = Len(hook.attempts)
               /\ hook.pc = "done" => hook.result # "nil"

(* C32: a call sends at most three attempts and ends; after a transport
   failure that is retried it sleeps the fixed backoff of 2 s, whatever the
   attempt's number. *)
C32_BoundedAttemptsFixedBackoff ==
    /\ [](Len(hook.attempts) <= DefaultHTTPHookRetries)
    /\ [](hook.i <= DefaultHTTPHookRetries)
    /\ [](\A k \in 1..Len(hook.attempts) :
            (IsTransportFailure(AttemptOutcome(k)) /\ k < Len(hook.attempts))
                => hook.attempts[k].slept = HTTPHookBackoffDuration)
    /\ (hook.pc = "running" ~> hook.pc = "done")

(* three attempts were sent, the first two failed in transport and were
   followed by the same sleep *)
C32_Witness ==
    /\ hook.pc = "done"
    /\ Len(hook.attempts) = DefaultHTTPHookRetries
    /\ IsTransportFailure(AttemptOutcome(1)) /\ IsTransportFailure(AttemptOutcome(2))
    /\ hook.attempts[1].slept = HTTPHookBackoffDuration
    /\ hook.attempts[2].slept = HTTPHookBackoffDuration

(* C33: every attempt of a call carries the same body; its signatures are over
   its own webhook-id, its own timestamp and that body; no two attempts of a
   call have the same webhook-id. *)
C33_FreshIdSameBody ==
    \A k \in 1..Len(hook.attempts) :
        LET a == hook.attempts[k]
        IN  /\ a.payload = hook.attempts[1].payload
            /\ a.signature = GenerateSignatures(a.msgID, a.timestamp, a.payload)
            /\ \A l \in 1..Len(hook.attempts) :
                    l # k => hook.attempts[l].msgID # a.msgID

(* three attempts were sent, the later ones at a later time than the first *)
C33_Witness ==
    /\ Len(hook.attempts) = DefaultHTTPHookRetries
    /\ hook.attempts[1].timestamp < hook.attempts[2].timestamp
    /\ hook.attempts[2].timestamp = hook.attempts[3].timestamp
    /\ hook.attempts[1].msgID # hook.attempts[2].msgID
    /\ hook.attempts[2].msgID # hook.attempts[3].msgID

(* the last attempt was answered 200, 202 or 204 with no body or with a body
   within the limit *)
SucceededAttempt ==
    /\ hook.attempts # <<>>
    /\ LET o == AttemptOutcome(Len(hook.attempts))
       IN  /\ o.kind = "response"
           /\ o.status \in {StatusOK, StatusAccepted, StatusNoContent}
           /\ o.bodyLen <= BodyLimit

(* C39: a call returns without error only when an attempt was answered 200,
   202 or 204; every other ending, an oversized body included, returns an
   error. *)
C39_NilErrorOnlyOnSuccess ==
    hook.pc = "done" => (hook.result = "nil" <=> SucceededAttempt)

(* a call that returns without error has a last attempt answered 200, 202 or
   204 *)
C39_NilErrorNeeds2xx ==
    (hook.pc = "done" /\ hook.result = "nil")
        => /\ hook.attempts # <<>>
           /\ AttemptOutcome(Len(hook.attempts)).kind = "response"
           /\ AttemptOutcome(Len(hook.attempts)).status
                 \in {StatusOK, StatusAccepted, StatusNoContent}

----------------------------------------------------------------------------
(* Properties of invokePostgresHook (SpecPgHook) *)

Interpreted == hook.pc = "done" /\ ~hook.runErr

(* an error object: a status, a message, or both *)
HasErrorObject(output) == output.error.httpCode # 0 \/ output.error.message # ""

(* C19: for each hook kind, when the output carries an error object (a status
   and/or a message), invokePostgresHook fails with that status, 500 when it
   is unset, and the hook's message; it succeeds only when there is no error
   object. *)
C19_StructuredErrorDecides ==
    Interpreted
        => /\ HasErrorObject(hook.output)
                => /\ hook.result # NilError
                   /\ hook.result.status =
                        (IF hook.output.error.httpCode = 0
                         THEN 500 ELSE hook.output.error.httpCode)
                   /\ hook.result.message = hook.output.error.message
           /\ hook.result = NilError => ~HasErrorObject(hook.output)

(* C20: for the custom-access-token hook, an output with no error whose claims
   fail validateTokenClaims makes invokePostgresHook fail, with the output's
   error http_code, or 500 when that is 0; the output is accepted only when it
   has no error and its claims validate. *)
C20_ClaimsValidated ==
    (Interpreted /\ hook.kind = "CustomAccessToken")
        => /\ (hook.output.error.message = "" /\ hook.output.claims = "malformed")
                => /\ hook.result # NilError
                   /\ hook.result.status =
                        (IF hook.output.error.httpCode = 0
                         THEN 500 ELSE hook.output.error.httpCode)
           /\ hook.result = NilError
                => hook.output.error.message = "" /\ hook.output.claims = "conforming"

C20_Witness ==
    /\ Interpreted
    /\ hook.kind = "CustomAccessToken"
    /\ hook.output.error = NoHookError
    /\ hook.output.claims = "malformed"
    /\ hook.result.status = 500
    /\ hook.result.message # ""

(* C21: when setting the statement timeout, invoking the procedure, resetting
   the timeout or deserializing the returned value fails, runPostgresHook
   returns an error and invokePostgresHook an internal-server failure, whatever
   the output holds; and a caller's transaction that was passed in commits
   only when none of them failed. *)
C21_RunFailureNeverAllows ==
    /\ (hook.pc = "done" /\ hook.fault # "none")
            => /\ hook.runErr
               /\ hook.result = HTTPError(500, InvokeErrorMessage(hook.kind))
    /\ (hook.pc = "done" /\ hook.tx /\ hook.callerTx = "committed")
            => hook.fault = "none"

C21_Witness ==
    /\ hook.pc = "done"
    /\ hook.tx
    /\ hook.fault = "unmarshal"
    /\ hook.output.error = NoHookError
    /\ hook.result.status = 500
    /\ hook.callerTx = "rolledBack"

----------------------------------------------------------------------------
(* Properties of concurrent VerifyFactor requests (SpecRace) *)

(* C24: of the VerifyFactor requests that carry the same challenge and a
   correct code and are handled concurrently, at most one succeeds and gets
   a token pair: no challenge counts two successes, and two workers never
   both hold a success for the same challenge. *)
C24_ConcurrentVerifyOnce ==
    /\ \A c \in DOMAIN successes : successes[c] <= 1
    /\ \A v, w \in Workers :
          (/\ v # w
           /\ inflight[v].pc = "done" /\ inflight[w].pc = "done"
           /\ inflight[v].challenge = inflight[w].challenge
           /\ inflight[v].valid /\ inflight[w].valid)
              => ~(inflight[v].token /\ inflight[w].token)

(* C34: runPostgresHook opens a transaction of its own exactly when the caller
   passed none: with a caller's transaction the statements run on it and no
   other transaction is opened; with none, the statements run on the one
   transaction the function opens, which is closed when the function returns. *)
C34_OwnTransactionIffNone ==
    hook.pc # "idle"
        => /\ hook.tx  => hook.ranOn = "tx" /\ hook.ownTx = "none"
           /\ ~hook.tx => /\ hook.ranOn = "own"
                          /\ hook.ownTx \in {"committed", "rolledBack"}
                          /\ hook.callerTx = "none"

(* both cases were run: the caller's transaction was passed and is the only
   one; or none was passed and the function's own committed *)
C34_Witness ==
    /\ hook.pc = "done"
    /\ hook.tx
    /\ hook.ranOn = "tx"
    /\ hook.ownTx = "none"
    /\ hook.callerTx = "committed"

----------------------------------------------------------------------------
(* Further properties of the MFA state machine (Spec) *)

(* the step is a VerifyFactor request on challenge c *)
VerifyStepOn(c) == Idle /\ last'.op = "verify" /\ last'.challenge = c

(* C35: a challenge with verified-at set has verified-at <= created_at + the
   expiry duration; a VerifyFactor request on a challenge that is past its
   expiry does not set verified-at, does not change a factor, does not touch a
   session and issues no token. *)
C35_NeverVerifiedAfterExpiry ==
    /\ [](\A c \in DOMAIN challenges :
            challenges[c].verifiedAt # NULL
                => challenges[c].verifiedAt
                     <= challenges[c].createdAt + ChallengeExpiryDuration)
    /\ [][\A c \in DOMAIN challenges :
            (VerifyStepOn(c) /\ now > challenges[c].createdAt + ChallengeExpiryDuration)
                => /\ last'.result # "OK"
                   /\ ~last'.token
                   /\ factors' = factors
                   /\ sessions' = sessions
                   /\ c \in DOMAIN challenges'
                         => challenges'[c].verifiedAt = challenges[c].verifiedAt]_vars

(* a request with a valid code on an expired challenge was rejected and the
   challenge removed *)
C35_Witness ==
    /\ last.op = "verify"
    /\ last.valid
    /\ last.result = "BadRequest"
    /\ last.challenge \notin DOMAIN challenges
    /\ last.challenge < nextId.challenge

(* C36: a VerifyFactor request whose code does not validate, on a challenge
   that exists, is unverified and is not expired, fails with Unauthorized and
   changes nothing: factors, challenges, sessions, the audit log and the count
   of successes are as before, so the challenge is still there to be verified. *)
C36_InvalidCodeChangesNothing ==
    [][\A c \in DOMAIN challenges :
        (/\ VerifyStepOn(c)
         /\ ~last'.valid
         /\ challenges[c].verifiedAt = NULL
         /\ now <= challenges[c].createdAt + ChallengeExpiryDuration)
            => /\ last'.result = "Unauthorized"
               /\ ~last'.token
               /\ UNCHANGED <<factors, challenges, sessions, auditLog, successes>>]_vars

(* an invalid code was rejected on a challenge that is still verifiable *)
C36_Witness ==
    /\ last.op = "verify"
    /\ ~last.valid
    /\ last.result = "Unauthorized"
    /\ last.challenge \in DOMAIN challenges
    /\ challenges[last.challenge].verifiedAt = NULL
    /\ ~hasExpired(challenges[last.challenge], now)

(* one request was rejected for its code on a challenge that another request
   then verified: a request finds the challenge unverified only before the
   other's transaction *)
C36_LaterVerified ==
    \E v, w \in Workers :
        /\ inflight[v].pc = "done" /\ inflight[v].result = "Unauthorized"
        /\ inflight[w].pc = "done" /\ inflight[w].result = "OK"
        /\ inflight[v].challenge = inflight[w].challenge
        /\ inflight[v].challenge \in DOMAIN challenges
        /\ challenges[inflight[v].challenge].verifiedAt # NULL

(* C37: a VerifyFactor request succeeds only with a challenge that was created
   for the factor of the request. *)
C37_ChallengeOfTheFactor ==
    (last.op = "verify" /\ last.result = "OK" /\ last.challenge \in DOMAIN challenges)
        => challenges[last.challenge].factor = last.factor

(* C38: every session's factor is the nil UUID or a factor that exists. *)
C38_SessionFactorExists ==
    \A s \in DOMAIN sessions :
        sessions[s].factor = NilUUID \/ sessions[s].factor \in DOMAIN factors

----------------------------------------------------------------------------
(* Properties of the factor's status (SpecAdmin) *)

(* C40: a factor that is verified is verified after every step in which it
   is not destroyed: the status of an existing factor changes only from
   unverified to verified. *)
C40_VerifiedStaysVerified ==
    [][\A f \in DOMAIN factors :
        (factors[f].status = FactorVerifiedState /\ f \in DOMAIN factors')
            => factors'[f].status = FactorVerifiedState]_vars

(* the administrator changed the name and the type of a verified factor *)
C40_Witness ==
    /\ last.op = "adminUpdate"
    /\ last.result = "OK"
    /\ last.factor \in DOMAIN factors
    /\ factors[last.factor].status = FactorVerifiedState
    /\ factors[last.factor].friendlyName = "name"
    /\ auditLog["adminUpdate"] = 1

====
